---- MODULE Spec2Model ----
(***************************************************************************)
(* Process orchestration layer of the FlaxeoUI backend server              *)
(* (src/unnamed/part_009): the "server" slot (sdProcess), the "cli" slot   *)
(* (cliProcess), the shared log buffer (serverLogs), the temp files of     *)
(* the upload middleware and the HTTP handlers that drive them.            *)
(*                                                                         *)
(* It also holds the argument builders of the handlers (the token lists    *)
(* passed to sd-server and sd-cli, the payload of server-mode generation)  *)
(* as operators over a request body of JavaScript values.                  *)
(*                                                                         *)
(* One action is one run-to-completion step of the Node event loop: a      *)
(* handler up to its first await, or a child-process event callback        *)
(* together with the promise continuation it releases.                     *)
(***************************************************************************)
EXTENDS Integers, Sequences, FiniteSets, TLC

\* ---- bounds of the model ----
\* sd-server children spawned by POST /api/start
MaxSrv == 3
\* requests to /api/generate-cli, /api/inpaint, /api/generate-video, /api/convert
MaxReq == 2
\* stdout/stderr chunks emitted by the sd-server children together
MaxSdChunks == 2
\* stdout/stderr chunks emitted by the CLI children together
MaxCliChunks == 1
\* values of Date.now()
MaxTime == 2
\* a capacity the log buffer is claimed to respect (the code names none)
LogCapacity == 2

SrvIds == 1..MaxSrv
ReqIds == 1..MaxReq

\* ---- state ----
VARIABLES
    sdProcess,    \* let sdProcess: 0 is null, else the id of a sd-server child
    cliProcess,   \* let cliProcess: 0 is null, else the id of a CLI request's child
    serverLogs,   \* let serverLogs: sequence of log entries
    srv,          \* the sd-server children ever spawned (OS process + pending events)
    req,          \* the CLI-slot requests ever received and their children
    tempFiles,    \* paths that exist under TEMP_DIR
    outFiles,     \* paths that exist under OUTPUT_DIR / MODELS_DIR
    now,          \* Date.now()
    crashed,      \* the server process died of an uncaught exception
    emitted,      \* history: chunks the children emitted since the last logs/clear
    lastSdArgs,   \* let lastSdArgs: <<>> is null, else the args of the last start
    lastResponse, \* history: the last answer of /api/start and of /api/stop
    body,         \* req.body (and req.files) an argument list is built for, Undef if none
    cmd,          \* the argument list / payload built from body
    gen,          \* the POST /api/generate request in progress
    backendConfig,  \* let backendConfig: the in-memory backend config
    configFile,     \* the text of CONFIG_FILE, <<>> while the file does not exist
    releases,       \* what RELEASES_DIR/<version> holds, per version
    backendAnswer,  \* history: the last answer of a backend-management endpoint
    image,          \* a PNG under OUTPUT_DIR and the values sd-cli wrote it from
    params,         \* the last answer of POST /api/image/params
    main,           \* the Electron main process: startServer, window, IPC
    backend,        \* the Express server process the main process spawned
    logPanel,       \* LogPanel.vue: the logs it displays
    view,           \* the Text2Image view: isGenerating and its requests in flight
    shutdown        \* the cloudflare tunnel child and the exit of the server process

\* the control state of the server slot and the state of the request builders
controlVars == <<lastSdArgs, lastResponse>>
requestVars == <<body, cmd, gen>>
backendVars == <<backendConfig, configFile, releases, backendAnswer>>

\* the state of the process slots and request builders, and the state beside it
coreVars == <<sdProcess, cliProcess, serverLogs, srv, req, tempFiles, outFiles,
              now, crashed, emitted, controlVars, requestVars>>
paramsVars == <<image, params>>
mainVars == <<main, backend>>
sideVars == <<view, shutdown>>
extVarsButPanel == <<backendVars, paramsVars, mainVars, sideVars>>
extVars == <<extVarsButPanel, logPanel>>

vars == <<coreVars, extVars>>

\* exit codes as Node reports them to 'close': "0", "1" (non-zero), "null"
\* (terminated by a signal), "ENOENT" (negative errno of a failed spawn)
ExitCodes == {"0", "1", "null"}

\* outcome of child_process.spawn: a live child, a child that will emit
\* 'error' (ENOENT / EACCES), or a synchronous exception
SpawnOutcomes == {"ok", "enoent", "throw"}

\* ---- JavaScript values of a request body ----

\* a field of req.body: undefined, a boolean, a string or a number (JSON
\* bodies carry all of them, multipart bodies carry strings); n of a string
\* is the number the string denotes
Undef == [t |-> "undefined", s |-> "", n |-> 0]
Bool(b) == [t |-> "boolean", s |-> IF b THEN "true" ELSE "false", n |-> 0]
Str(s) == [t |-> "string", s |-> s, n |-> 0]
Num(n) == [t |-> "number", s |-> "", n |-> n]
NumStr(n) == [t |-> "string", s |-> ToString(n), n |-> n]
NaN == [t |-> "NaN", s |-> "", n |-> 0]

\* ToBoolean(v), the test of `if (v)`, `v || d` and `v ? a : b`
Truthy(v) ==
    CASE v.t = "boolean" -> v.s = "true"
      [] v.t = "string" -> v.s # ""
      [] v.t = "number" -> v.n # 0
      [] OTHER -> FALSE

\* v || d
Or(v, d) == IF Truthy(v) THEN v ELSE d

\* v === true || v === 'true'
IsTrue(v) == v.t \in {"boolean", "string"} /\ v.s = "true"

\* String(v)
String(v) ==
    CASE v.t = "number" -> ToString(v.n)
      [] v.t = "NaN" -> "NaN"
      [] v.t = "undefined" -> "undefined"
      [] OTHER -> v.s

\* parseInt(v) / parseFloat(v) on the integers of the model
ParseInt(v) ==
    CASE v.t = "number" -> v
      [] v.t = "string" /\ v.s = ToString(v.n) -> Num(v.n)
      [] OTHER -> NaN

\* ToNumber(v), the coercion of the operand of `v / 64`
ToNumber(v) ==
    CASE v.t = "number" -> v
      [] v.t = "string" /\ (v.s = ToString(v.n) \/ v.s = "") -> Num(v.n)
      [] v.t = "boolean" -> Num(IF v.s = "true" THEN 1 ELSE 0)
      [] OTHER -> NaN

\* Math.floor(v / m) * m, the multiple of m below v
FloorTo(v, m) ==
    IF ToNumber(v).t = "NaN" THEN NaN
    ELSE Num((ToNumber(v).n \div m) * m)

\* Math.round(v / m) * m: Math.round rounds to the nearest integer, a half
\* towards plus infinity; floor(n/m + 1/2) = floor((2n + m) / (2m))
RoundTo(v, m) ==
    IF ToNumber(v).t = "NaN" THEN NaN
    ELSE Num(((2 * ToNumber(v).n + m) \div (2 * m)) * m)

\* the prompts of the model that contain the text '<lora:'
LoraPrompts == {"a cat <lora:detail:1>"}

\* (prompt || '').includes('<lora:')
IncludesLora(v) == Truthy(v) /\ v.t = "string" /\ v.s \in LoraPrompts

\* an optional token group of an argument list
Opt(cond, tokens) == IF cond THEN tokens ELSE <<>>

\* ---- request bodies ----

\* a request body with every field missing. Besides the fields of req.body
\* it holds what the handlers derive from req.files and the file system:
\* kontextRefPath, controlImagePath, initImg and maskPath are the resolved
\* paths when the file exists, pmImagesDir the pm_<ts> directory when it has
\* entries, embeddingsDir says whether <models>/embeddings exists; files
\* names the fields of req.files that carry a file and pmDirFiles what the
\* pm_<ts> directory holds, each entry named by where it came from
NoBody ==
    [port |-> Undef, loadMode |-> Undef, diffusionModel |-> Undef,
     clipL |-> Undef, clipG |-> Undef, clipVision |-> Undef, t5xxl |-> Undef,
     llm |-> Undef, vae |-> Undef, highNoiseDiffusionModel |-> Undef,
     loraDir |-> Undef, loraApplyMode |-> Undef, scheduler |-> Undef,
     samplingMethod |-> Undef, rngType |-> Undef,
     diffusionFa |-> Undef, vaeTiling |-> Undef, clipOnCpu |-> Undef,
     vaeOnCpu |-> Undef, offloadToCpu |-> Undef, diffusionConvDirect |-> Undef,
     vaeConvDirect |-> Undef, forceSDXLVaeConvScale |-> Undef,
     vaeTileSize |-> Undef, controlNet |-> Undef, photoMaker |-> Undef,
     defaultSteps |-> Undef, defaultCfg |-> Undef,
     prompt |-> Undef, negative_prompt |-> Undef, steps |-> Undef,
     cfg_scale |-> Undef, width |-> Undef, height |-> Undef, seed |-> Undef,
     batch_size |-> Undef, guidance |-> Undef, clip_skip |-> Undef,
     batchCount |-> Undef, quantizationType |-> Undef, upscaleModel |-> Undef,
     taesdModel |-> Undef, livePreviewMethod |-> Undef,
     pmStyleStrength |-> Undef, pmIdEmbedsPath |-> Undef,
     controlStrength |-> Undef, applyCanny |-> Undef,
     strength |-> Undef, videoFrames |-> Undef, flowShift |-> Undef,
     highNoiseCfg |-> Undef, highNoiseSteps |-> Undef,
     highNoiseSampler |-> Undef,
     kontextRefPath |-> Undef, controlImagePath |-> Undef,
     pmImagesDir |-> Undef, initImg |-> Undef, maskPath |-> Undef,
     embeddingsDir |-> Undef, files |-> {}, pmDirFiles |-> {}]

\* path.join(MODELS_DIR, dir, name)
ModelPath(dir, name) == "models/" \o dir \o "/" \o String(name)

\* path.join(OUTPUT_DIR, `${prefix}_${Date.now()}${ext}`)
OutputPath(prefix, ts, ext) == "output/" \o prefix \o "_" \o ToString(ts) \o ext

\* path.join(TEMP_DIR, 'preview.png')
PreviewPath == "temp/preview.png"

\* ---- argument builders ----

\* the args of sd-server built by POST /api/start
\* the value of --listen-port in the argument list of a start, "" for none
ListenPort(args) == IF args = <<>> THEN "" ELSE args[2]

\* the port of fetch('http://localhost:1234/v1/images/generations')
FetchPort == "1234"

StartArgs(b) ==
    <<"--listen-port", String(Or(b.port, Num(1234))), "-v">>
    \o (IF b.loadMode = Str("split")
        THEN Opt(Truthy(b.diffusionModel),
                 <<"--diffusion-model", ModelPath("diffusion", b.diffusionModel)>>)
             \o Opt(Truthy(b.clipL), <<"--clip_l", ModelPath("clip", b.clipL)>>)
             \o Opt(Truthy(b.clipG), <<"--clip_g", ModelPath("clip", b.clipG)>>)
             \o Opt(Truthy(b.t5xxl), <<"--t5xxl", ModelPath("t5xxl", b.t5xxl)>>)
             \o Opt(Truthy(b.llm), <<"--llm", ModelPath("llm", b.llm)>>)
             \o Opt(Truthy(b.vae), <<"--vae", ModelPath("vae", b.vae)>>)
        ELSE Opt(Truthy(b.diffusionModel),
                 <<"-m", ModelPath("diffusion", b.diffusionModel)>>)
             \o Opt(Truthy(b.vae), <<"--vae", ModelPath("vae", b.vae)>>))
    \o Opt(Truthy(b.loraDir), <<"--lora-model-dir", "models/loras">>)
    \o <<"--lora-apply-mode", String(Or(b.loraApplyMode, Str("auto")))>>
    \o Opt(Truthy(b.scheduler), <<"--scheduler", String(b.scheduler)>>)
    \o Opt(Truthy(b.samplingMethod), <<"--sampling-method", String(b.samplingMethod)>>)
    \o Opt(Truthy(b.rngType), <<"--rng", String(b.rngType)>>)
    \o Opt(Truthy(b.diffusionFa), <<"--diffusion-fa">>)
    \o Opt(Truthy(b.vaeTiling), <<"--vae-tiling">>)
    \o Opt(Truthy(b.clipOnCpu), <<"--clip-on-cpu">>)
    \o Opt(Truthy(b.vaeOnCpu), <<"--vae-on-cpu">>)
    \o Opt(Truthy(b.offloadToCpu), <<"--offload-to-cpu">>)
    \o Opt(Truthy(b.vaeTileSize), <<"--vae-tile-size", String(b.vaeTileSize)>>)
    \o Opt(Truthy(b.controlNet),
           <<"--control-net", ModelPath("controlnet", b.controlNet)>>)
    \o Opt(Truthy(b.photoMaker),
           <<"--photo-maker", ModelPath("photomaker", b.photoMaker)>>)
    \o Opt(Truthy(b.defaultSteps), <<"--steps", String(b.defaultSteps)>>)
    \o Opt(Truthy(b.defaultCfg), <<"--cfg-scale", String(b.defaultCfg)>>)

\* generate-cli: model loading based on mode
CliLoadArgs(b) ==
    (IF b.loadMode = Str("split")
     THEN Opt(Truthy(b.diffusionModel),
              <<"--diffusion-model", ModelPath("diffusion", b.diffusionModel)>>)
          \o Opt(Truthy(b.clipL), <<"--clip_l", ModelPath("clip", b.clipL)>>)
          \o Opt(Truthy(b.clipG), <<"--clip_g", ModelPath("clip", b.clipG)>>)
          \o Opt(Truthy(b.clipVision),
                 <<"--clip_vision", ModelPath("clip_vision", b.clipVision)>>)
          \o Opt(Truthy(b.t5xxl), <<"--t5xxl", ModelPath("t5xxl", b.t5xxl)>>)
          \o Opt(Truthy(b.llm), <<"--llm", ModelPath("llm", b.llm)>>)
          \o Opt(Truthy(b.vae), <<"--vae", ModelPath("vae", b.vae)>>)
     ELSE Opt(Truthy(b.diffusionModel),
              <<"-m", ModelPath("diffusion", b.diffusionModel)>>)
          \o Opt(Truthy(b.vae), <<"--vae", ModelPath("vae", b.vae)>>))

\* generate-cli: generation parameters and the output path
CliGenerationArgs(b, ts) ==
    <<"-p", String(Or(b.prompt, Str("")))>>
    \o Opt(Truthy(b.negative_prompt), <<"-n", String(b.negative_prompt)>>)
    \o <<"--steps", String(Or(b.steps, Num(20)))>>
    \o <<"--cfg-scale", String(Or(b.cfg_scale, Num(7)))>>
    \o <<"-W", String(RoundTo(Or(b.width, Num(1024)), 64))>>
    \o <<"-H", String(RoundTo(Or(b.height, Num(1024)), 64))>>
    \o <<"-s", String(Or(b.seed, Num(-1)))>>
    \o <<"-o", OutputPath("gen", ts, ".png")>>

\* generate-cli: optional parameters and hardware flags
CliOptionalArgs(b) ==
    Opt(Truthy(b.guidance), <<"--guidance", String(b.guidance)>>)
    \o Opt(Truthy(b.clip_skip) /\ ParseInt(b.clip_skip) # Num(-1),
           <<"--clip-skip", String(b.clip_skip)>>)
    \o Opt(Truthy(b.scheduler), <<"--scheduler", String(b.scheduler)>>)
    \o Opt(Truthy(b.samplingMethod), <<"--sampling-method", String(b.samplingMethod)>>)
    \o Opt(Truthy(b.loraApplyMode), <<"--lora-apply-mode", String(b.loraApplyMode)>>)
    \o Opt(Truthy(b.vaeTileSize), <<"--vae-tile-size", String(b.vaeTileSize)>>)
    \o Opt(Truthy(b.rngType), <<"--rng", String(b.rngType)>>)
    \o Opt(Truthy(b.batchCount) /\ ParseInt(b.batchCount).t = "number"
                                /\ ParseInt(b.batchCount).n > 1,
           <<"-b", String(b.batchCount)>>)
    \o Opt(IsTrue(b.diffusionFa) /\ ~IncludesLora(Or(b.prompt, Str(""))),
           <<"--diffusion-fa">>)
    \o Opt(IsTrue(b.vaeTiling), <<"--vae-tiling">>)
    \o Opt(IsTrue(b.clipOnCpu), <<"--clip-on-cpu">>)
    \o Opt(IsTrue(b.offloadToCpu), <<"--offload-to-cpu">>)
    \o Opt(IsTrue(b.diffusionConvDirect), <<"--diffusion-conv-direct">>)
    \o Opt(IsTrue(b.vaeConvDirect), <<"--vae-conv-direct">>)
    \o Opt(IsTrue(b.forceSDXLVaeConvScale), <<"--force-sdxl-vae-conv-scale">>)

\* generate-cli: embeddings and LoRA directories, quantization, Kontext
\* reference, upscaler, TAESD, live preview, PhotoMaker and ControlNet
CliFeatureArgs(b) ==
    Opt(Truthy(b.embeddingsDir), <<"--embd-dir", "models/embeddings">>)
    \o Opt(IncludesLora(Or(b.prompt, Str(""))),
           <<"--lora-model-dir", "models/loras">>)
    \o Opt(Truthy(b.quantizationType), <<"--type", String(b.quantizationType)>>)
    \o Opt(Truthy(b.kontextRefPath), <<"-r", String(b.kontextRefPath)>>)
    \o Opt(Truthy(b.upscaleModel),
           <<"--upscale-model", ModelPath("upscale", b.upscaleModel)>>)
    \o Opt(Truthy(b.taesdModel), <<"--taesd", ModelPath("taesd", b.taesdModel)>>)
    \o Opt(Truthy(b.livePreviewMethod),
           <<"--preview", String(b.livePreviewMethod),
             "--preview-path", PreviewPath, "--preview-interval", "1">>)
    \o Opt(Truthy(b.photoMaker),
           <<"--photo-maker", ModelPath("photomaker", b.photoMaker)>>
           \o Opt(Truthy(b.pmImagesDir),
                  <<"--pm-id-images-dir", String(b.pmImagesDir)>>)
           \o Opt(Truthy(b.pmStyleStrength),
                  <<"--pm-style-strength", String(b.pmStyleStrength)>>)
           \o Opt(Truthy(b.pmIdEmbedsPath),
                  <<"--pm-id-embed-path", String(b.pmIdEmbedsPath)>>))
    \o Opt(Truthy(b.controlNet),
           <<"--control-net", ModelPath("controlnet", b.controlNet)>>
           \o Opt(Truthy(b.controlImagePath),
                  <<"--control-image", String(b.controlImagePath)>>)
           \o Opt(Truthy(b.controlStrength),
                  <<"--control-strength", String(b.controlStrength)>>)
           \o Opt(IsTrue(b.applyCanny), <<"--canny">>))

\* the blocks of GenerateCliArgs with the directories and feature blocks
\* ahead of the generation parameters and the output path after them
GenerateCliArgsOutputLate(b, ts) ==
    CliLoadArgs(b) \o CliFeatureArgs(b) \o CliOptionalArgs(b)
    \o CliGenerationArgs(b, ts) \o <<"-v">>

\* the args of sd-cli built by POST /api/generate-cli at time ts, for a body
\* that passed the model check
GenerateCliArgs(b, ts) ==
    CliLoadArgs(b) \o CliGenerationArgs(b, ts) \o CliOptionalArgs(b)
    \o CliFeatureArgs(b) \o <<"-v">>

\* the args of sd-cli built by POST /api/inpaint at time ts, for a body
\* whose init image exists
InpaintArgs(b, ts) ==
    (IF b.loadMode = Str("split")
     THEN Opt(Truthy(b.diffusionModel),
              <<"--diffusion-model", ModelPath("diffusion", b.diffusionModel)>>)
          \o Opt(Truthy(b.clipL), <<"--clip_l", ModelPath("clip", b.clipL)>>)
          \o Opt(Truthy(b.clipG), <<"--clip_g", ModelPath("clip", b.clipG)>>)
          \o Opt(Truthy(b.t5xxl), <<"--t5xxl", ModelPath("t5xxl", b.t5xxl)>>)
          \o Opt(Truthy(b.llm), <<"--llm", ModelPath("llm", b.llm)>>)
          \o Opt(Truthy(b.vae), <<"--vae", ModelPath("vae", b.vae)>>)
     ELSE Opt(Truthy(b.diffusionModel),
              <<"-m", ModelPath("diffusion", b.diffusionModel)>>)
          \o Opt(Truthy(b.vae), <<"--vae", ModelPath("vae", b.vae)>>))
    \o <<"-i", String(b.initImg)>>
    \o Opt(Truthy(b.maskPath), <<"--mask", String(b.maskPath)>>)
    \o <<"--strength", IF Truthy(ParseInt(b.strength))
                       THEN String(ParseInt(b.strength)) ELSE "0.75">>
    \o <<"-p", String(Or(b.prompt, Str("")))>>
    \o Opt(Truthy(b.negative_prompt), <<"-n", String(b.negative_prompt)>>)
    \o <<"--steps", String(Or(b.steps, Num(20)))>>
    \o <<"--cfg-scale", String(Or(b.cfg_scale, Num(7)))>>
    \o <<"-s", String(Or(b.seed, Num(-1)))>>
    \o <<"-o", OutputPath("inpaint", ts, ".png")>>
    \o Opt(Truthy(b.guidance), <<"--guidance", String(b.guidance)>>)
    \o Opt(Truthy(b.scheduler), <<"--scheduler", String(b.scheduler)>>)
    \o Opt(Truthy(b.samplingMethod), <<"--sampling-method", String(b.samplingMethod)>>)
    \o Opt(IsTrue(b.vaeTiling), <<"--vae-tiling">>)
    \o Opt(IsTrue(b.clipOnCpu), <<"--clip-on-cpu">>)
    \o Opt(IsTrue(b.offloadToCpu), <<"--offload-to-cpu">>)
    \o Opt(IncludesLora(b.prompt), <<"--lora-model-dir", "models/loras">>)
    \o <<"-v">>

\* the args of sd-cli built by POST /api/generate-video at time ts
GenerateVideoArgs(b, ts) ==
    <<"-M", "vid_gen">>
    \o Opt(Truthy(b.diffusionModel),
           <<"--diffusion-model", ModelPath("diffusion", b.diffusionModel)>>)
    \o Opt(Truthy(b.highNoiseDiffusionModel),
           <<"--high-noise-diffusion-model",
             ModelPath("diffusion", b.highNoiseDiffusionModel)>>)
    \o Opt(Truthy(b.t5xxl), <<"--t5xxl", ModelPath("t5xxl", b.t5xxl)>>)
    \o Opt(Truthy(b.vae), <<"--vae", ModelPath("vae", b.vae)>>)
    \o Opt(Truthy(b.clipVision),
           <<"--clip_vision", ModelPath("clip_vision", b.clipVision)>>)
    \o Opt(Truthy(b.initImg), <<"-i", String(b.initImg)>>)
    \o <<"-p", String(Or(b.prompt, Str("a beautiful scene")))>>
    \o Opt(Truthy(b.negative_prompt), <<"-n", String(b.negative_prompt)>>)
    \o <<"--steps", String(Or(b.steps, Num(20)))>>
    \o <<"--cfg-scale", String(Or(b.cfg_scale, Num(6)))>>
    \o <<"-W", String(RoundTo(Or(b.width, Num(832)), 16))>>
    \o <<"-H", String(RoundTo(Or(b.height, Num(480)), 16))>>
    \o <<"-s", String(Or(b.seed, Num(-1)))>>
    \o <<"-o", OutputPath("video", ts, ".mp4")>>
    \o <<"--video-frames", String(Or(b.videoFrames, Num(33)))>>
    \o <<"--flow-shift", String(Or(b.flowShift, Num(3)))>>
    \o Opt(Truthy(b.highNoiseDiffusionModel),
           Opt(Truthy(b.highNoiseCfg),
               <<"--high-noise-cfg-scale", String(b.highNoiseCfg)>>)
           \o Opt(Truthy(b.highNoiseSteps),
                  <<"--high-noise-steps", String(b.highNoiseSteps)>>)
           \o Opt(Truthy(b.highNoiseSampler),
                  <<"--high-noise-sampling-method", String(b.highNoiseSampler)>>))
    \o Opt(Truthy(b.guidance), <<"--guidance", String(b.guidance)>>)
    \o Opt(Truthy(b.scheduler), <<"--scheduler", String(b.scheduler)>>)
    \o Opt(Truthy(b.samplingMethod), <<"--sampling-method", String(b.samplingMethod)>>)
    \o Opt(IsTrue(b.diffusionFa), <<"--diffusion-fa">>)
    \o Opt(IsTrue(b.vaeTiling), <<"--vae-tiling">>)
    \o Opt(IsTrue(b.clipOnCpu), <<"--clip-on-cpu">>)
    \o Opt(IsTrue(b.offloadToCpu), <<"--offload-to-cpu">>)
    \o Opt(IncludesLora(b.prompt), <<"--lora-model-dir", "models/loras">>)
    \o Opt(Truthy(b.quantizationType), <<"--type", String(b.quantizationType)>>)
    \o <<"-v">>

\* the payload that POST /api/generate sends to the sd-server
GeneratePayload(b) ==
    [prompt |-> b.prompt,
     negative_prompt |-> Or(b.negative_prompt, Str("")),
     n |-> Num(1),
     size |-> String(RoundTo(b.width, 64)) \o "x" \o String(RoundTo(b.height, 64)),
     steps |-> Or(ParseInt(b.steps), Num(20)),
     cfg_scale |-> Or(ParseInt(b.cfg_scale), Num(7)),
     seed |-> Or(ParseInt(b.seed), Num(-1)),
     guidance |-> IF Truthy(b.guidance) THEN ParseInt(b.guidance) ELSE Undef,
     clip_skip |-> IF Truthy(b.clip_skip) THEN ParseInt(b.clip_skip) ELSE Undef]

NoSrv == [st |-> "none", signalled |-> FALSE, code |-> "none", resp |-> <<>>]

NoReq == [kind |-> "none", st |-> "none", signalled |-> FALSE, code |-> "none",
          hasModel |-> FALSE, settled |-> FALSE, resp |-> <<>>,
          ts |-> 0, temps |-> {}, outPath |-> <<"none", 0>>,
          busyAtArrival |-> FALSE, cancelWhileRunning |-> FALSE,
          artifactAtAnswer |-> FALSE, output |-> <<>>, respOutput |-> <<>>,
          preview |-> FALSE]

\* an answer of a control endpoint; n counts the answers of the endpoint
\* modulo 2, so that two equal answers in a row are two states
NoAnswer == [n |-> 0, message |-> "none"]

Answer(last, message) == [n |-> (last.n + 1) % 2, message |-> message]

NoCmd == [endpoint |-> "none", args |-> <<>>, payload |-> Undef]

\* no POST /api/generate request yet. pc is "idle", "await" (the fetch of
\* iteration i is in flight) or "done"; seed and batch_size are the seed of
\* req.body and the bound of the loop, dispatched lists the seeds of the
\* payloads sent so far; port is the port the last payload was sent to and
\* serverPort the --listen-port of the sd-server that ran when it was sent
NoGen == [pc |-> "idle", seed |-> Undef, batch_size |-> 0,
          payload |-> Undef, i |-> 0, dispatched |-> <<>>,
          generatedFiles |-> <<>>, resp |-> <<>>,
          port |-> "", serverPort |-> ""]

\* ---------------------------------------------------------------------
\* Backend config: the in-memory backendConfig, CONFIG_FILE and RELEASES_DIR
\* ---------------------------------------------------------------------

\* release tags a request can name
Versions == {"v1", "v2"}

\* the object loadBackendConfig returns when CONFIG_FILE cannot be read
DefaultBackendConfig ==
    [activeVersion |-> "custom", installedVersions |-> <<>>,
     customBinaryExists |-> FALSE]

\* the keys of a config in the order JSON.stringify writes them
ConfigKeys == <<"activeVersion", "installedVersions", "customBinaryExists">>

\* JSON.stringify(config, null, 2): the members of the object, key by key
JSONStringify(config) ==
    [i \in 1..Len(ConfigKeys) |-> <<ConfigKeys[i], config[ConfigKeys[i]]>>]

\* JSON.parse(text): the object that has the members of the text
JSONParse(text) ==
    [k \in {text[i][1] : i \in DOMAIN text} |->
        text[CHOOSE i \in DOMAIN text : text[i][1] = k][2]]

\* loadBackendConfig(): the parsed file if it exists, else the default
LoadBackendConfig(file) ==
    IF file # <<>> THEN JSONParse(file) ELSE DefaultBackendConfig

\* fs.writeFileSync(CONFIG_FILE, text): the file after a write that worked
\* (ok) or threw
WriteFileNever(file, text, ok) == file
WriteFile(file, text, ok) == IF ok THEN text ELSE file

\* saveBackendConfig(config) on the file
SaveBackendConfig(file, config, ok) == WriteFile(file, JSONStringify(config), ok)

\* getActiveBackendPath() for a config
GetActiveBackendPath(config) ==
    IF config.activeVersion = "custom"
    THEN "backend/custom"
    ELSE "backend/releases/" \o config.activeVersion

\* RELEASES_DIR/<version> holds sd-server or sd-server.exe
HasSdServer(version) == version \in Versions /\ releases[version] = "binary"

\* backendAnswer: endpoint is "none" before the first answer; assigned tells
\* whether the handler assigned to backendConfig before it answered
NoBackendAnswer == [endpoint |-> "none", status |-> 0, assigned |-> FALSE]
BackendAnswer(endpoint, status, assigned) ==
    [endpoint |-> endpoint, status |-> status, assigned |-> assigned]

InitBackend ==
    /\ configFile = <<>>
    /\ backendConfig = LoadBackendConfig(configFile)
    /\ releases = [v \in Versions |-> "absent"]
    /\ backendAnswer = NoBackendAnswer

\* ---------------------------------------------------------------------
\* PNG parameters: text is a sequence of characters
\* ---------------------------------------------------------------------

NegativePromptKey == <<"N", "e", "g", "a", "t", "i", "v", "e", " ", "p", "r", "o", "m", "p", "t", ":">>
StepsKey == <<"S", "t", "e", "p", "s", ":">>
CfgScaleKey == <<"C", "F", "G", " ", "s", "c", "a", "l", "e">>
SeedKey == <<"S", "e", "e", "d">>
SizeKey == <<"S", "i", "z", "e">>
SamplerKey == <<"S", "a", "m", "p", "l", "e", "r">>
ParametersKeyword == <<"p", "a", "r", "a", "m", "e", "t", "e", "r", "s">>
DigitChars == <<"0", "1", "2", "3", "4", "5", "6", "7", "8", "9">>

\* the text that is undefined or null
NoText == <<"undefined">>

IsSpace(c) == c \in {" ", "\n"}
IsDigit(c) == \E i \in DOMAIN DigitChars : DigitChars[i] = c
DigitValue(c) == (CHOOSE i \in DOMAIN DigitChars : DigitChars[i] = c) - 1

\* String.prototype.trim
RECURSIVE TrimStart(_)
TrimStart(t) ==
    IF t # <<>> /\ IsSpace(Head(t)) THEN TrimStart(Tail(t)) ELSE t
RECURSIVE TrimEnd(_)
TrimEnd(t) ==
    IF t # <<>> /\ IsSpace(t[Len(t)]) THEN TrimEnd(SubSeq(t, 1, Len(t) - 1)) ELSE t
Trim(t) == TrimEnd(TrimStart(t))

\* String.prototype.startsWith
StartsWith(t, prefix) ==
    Len(t) >= Len(prefix) /\ SubSeq(t, 1, Len(prefix)) = prefix

\* String.prototype.indexOf, counted from 1; 0 when pattern does not occur
IndexOf(t, pattern) ==
    LET at == {i \in 1..(Len(t) - Len(pattern) + 1) :
                  SubSeq(t, i, i + Len(pattern) - 1) = pattern}
    IN  IF at = {} THEN 0 ELSE CHOOSE i \in at : \A j \in at : i <= j

\* String.prototype.split(separator)
RECURSIVE Split(_, _)
Split(t, separator) ==
    LET i == IndexOf(t, separator)
    IN  IF i = 0 THEN <<t>>
        ELSE <<SubSeq(t, 1, i - 1)>>
                 \o Split(SubSeq(t, i + Len(separator), Len(t)), separator)

\* String.prototype.replace(pattern, ''): the first occurrence is removed
Remove(t, pattern) ==
    LET i == IndexOf(t, pattern)
    IN  IF i = 0 THEN t
        ELSE SubSeq(t, 1, i - 1) \o SubSeq(t, i + Len(pattern), Len(t))

\* the value of a run of digits read from the left, up to the first other
\* character
RECURSIVE DigitsValue(_, _)
DigitsValue(t, acc) ==
    IF t # <<>> /\ IsDigit(Head(t))
    THEN DigitsValue(Tail(t), acc * 10 + DigitValue(Head(t)))
    ELSE acc

\* parseInt(text): leading white space, a sign, digits; NaN without a digit;
\* text is NoText when the value is undefined
ParseIntText(text) ==
    IF text = NoText THEN NaN
    ELSE LET t == TrimStart(text)
             neg == t # <<>> /\ Head(t) = "-"
             d == IF neg THEN Tail(t) ELSE t
         IN  IF d = <<>> \/ ~IsDigit(Head(d)) THEN NaN
             ELSE Num((IF neg THEN -1 ELSE 1) * DigitsValue(d, 0))

\* parseFloat(text), counted in tenths: the integer part and the first
\* decimal (the texts of the model carry at most one decimal)
ParseFloatText(text) ==
    IF text = NoText THEN NaN
    ELSE LET t == TrimStart(text)
             dot == IndexOf(t, <<".">>)
             whole == IF dot = 0 THEN t ELSE SubSeq(t, 1, dot - 1)
             frac == IF dot = 0 THEN <<>> ELSE SubSeq(t, dot + 1, Len(t))
         IN  IF whole = <<>> \/ ~IsDigit(Head(whole)) THEN NaN
             ELSE Num(DigitsValue(whole, 0) * 10
                        + (IF frac # <<>> /\ IsDigit(Head(frac))
                           THEN DigitValue(Head(frac)) ELSE 0))

\* the decimal digits of a natural number, and the text of an integer
RECURSIVE Digits(_)
Digits(n) ==
    IF n < 10 THEN <<DigitChars[n + 1]>>
    ELSE Digits(n \div 10) \o <<DigitChars[(n % 10) + 1]>>
IntText(n) == IF n < 0 THEN <<"-">> \o Digits(-n) ELSE Digits(n)
TenthsText(n) ==
    Digits(n \div 10) \o (IF n % 10 = 0 THEN <<>> ELSE <<".">> \o Digits(n % 10))

\* the 'parameters' text of an image: the prompt, the negative prompt line
\* and the line of the other parameters
ParametersText(m) ==
    m.prompt \o <<"\n">>
        \o NegativePromptKey \o <<" ">> \o m.negativePrompt \o <<"\n">>
        \o StepsKey \o <<" ">> \o IntText(m.steps) \o <<",", " ">>
        \o SamplerKey \o <<":", " ">> \o <<"e", "u", "l", "e", "r">> \o <<",", " ">>
        \o CfgScaleKey \o <<":", " ">> \o TenthsText(m.cfgScale) \o <<",", " ">>
        \o SeedKey \o <<":", " ">> \o IntText(m.seed) \o <<",", " ">>
        \o SizeKey \o <<":", " ">> \o IntText(m.width) \o <<"x">> \o IntText(m.height)

\* a PNG file: the magic and its chunks; the data of a tEXt chunk is the
\* keyword, a zero byte ("NUL") and the text
PngFile(m) ==
    [magic |-> "89504e470d0a1a0a",
     chunks |-> <<[type |-> "IHDR", data |-> <<>>],
                  [type |-> "tEXt",
                   data |-> ParametersKeyword \o <<"NUL">> \o ParametersText(m)],
                  [type |-> "IDAT", data |-> <<>>],
                  [type |-> "IEND", data |-> <<>>]>>]

\* readPngParams(filePath): the text of the first tEXt chunk whose keyword
\* is 'parameters', NoText (null) when there is none
RECURSIVE ReadChunks(_)
ReadChunks(chunks) ==
    IF chunks = <<>> THEN NoText
    ELSE LET c == Head(chunks)
             nullByteIndex == IndexOf(c.data, <<"NUL">>) - 1
         IN  IF /\ c.type = "tEXt"
                /\ nullByteIndex > 0
                /\ SubSeq(c.data, 1, nullByteIndex) = ParametersKeyword
             THEN SubSeq(c.data, nullByteIndex + 2, Len(c.data))
             ELSE ReadChunks(Tail(chunks))
ReadPngParams(file) ==
    IF file.magic # "89504e470d0a1a0a" THEN NoText ELSE ReadChunks(file.chunks)

\* the loop over lines[1..]: acc holds prompt, negativePrompt, otherParams
RECURSIVE ScanLines(_, _)
ScanLines(lines, acc) ==
    IF lines = <<>> THEN acc
    ELSE LET l == Head(lines)
         IN  ScanLines(Tail(lines),
                IF StartsWith(l, NegativePromptKey)
                THEN [acc EXCEPT !.negativePrompt = Trim(Remove(l, NegativePromptKey))]
                ELSE IF StartsWith(l, StepsKey)
                THEN [acc EXCEPT !.otherParams = l]
                ELSE IF acc.negativePrompt = <<>> /\ acc.otherParams = <<>>
                THEN [acc EXCEPT !.prompt = @ \o <<"\n">> \o l]
                ELSE acc)

\* the answer before the parameters are read: result = {}
EmptyParams ==
    [answered |-> TRUE, prompt |-> NoText, negativePrompt |-> NoText,
     steps |-> Undef, cfgScale |-> Undef, seed |-> Undef, width |-> Undef,
     height |-> Undef, sampler |-> NoText]
NoParams == [EmptyParams EXCEPT !.answered = FALSE]

\* pairs.forEach over the pairs of the other-parameters line
RECURSIVE ScanPairs(_, _)
ScanPairs(pairs, result) ==
    IF pairs = <<>> THEN result
    ELSE LET kv == Split(Head(pairs), <<":", " ">>)
             k == kv[1]
             v == IF Len(kv) >= 2 THEN kv[2] ELSE NoText
             dims == IF v = NoText THEN <<>> ELSE Split(v, <<"x">>)
         IN  ScanPairs(Tail(pairs),
                IF k = SubSeq(StepsKey, 1, 5)
                THEN [result EXCEPT !.steps = ParseIntText(v)]
                ELSE IF k = CfgScaleKey
                THEN [result EXCEPT !.cfgScale = ParseFloatText(v)]
                ELSE IF k = SeedKey
                THEN [result EXCEPT !.seed = ParseIntText(v)]
                ELSE IF k = SizeKey /\ Len(dims) = 2
                THEN [result EXCEPT !.width = ParseIntText(dims[1]),
                                    !.height = ParseIntText(dims[2])]
                ELSE IF k = SamplerKey
                THEN [result EXCEPT !.sampler = v]
                ELSE result)

\* the result of POST /api/image/params for the text readPngParams returned
ImageParams(paramsText) ==
    IF paramsText = NoText \/ paramsText = <<>> THEN EmptyParams
    ELSE LET lines == Split(paramsText, <<"\n">>)
             acc == ScanLines(Tail(lines),
                        [prompt |-> lines[1], negativePrompt |-> <<>>,
                         otherParams |-> <<>>])
             named == [EmptyParams EXCEPT !.prompt = Trim(acc.prompt),
                                          !.negativePrompt = Trim(acc.negativePrompt)]
         IN  IF acc.otherParams = <<>> THEN named
             ELSE ScanPairs(Split(acc.otherParams, <<",", " ">>), named)

\* no image was written yet
NoImage == [written |-> FALSE, meta |-> Undef, file |-> Undef]
InitParams ==
    /\ image = NoImage
    /\ params = NoParams

\* ---------------------------------------------------------------------
\* Electron main process and the port of the Express server
\* ---------------------------------------------------------------------

\* let serverPort = 3000 of the main process, '--port' default of the server
DefaultServerPort == 3000
DefaultPort == 3000

\* how far findAvailablePort moves off the requested port at most
MaxPortShift == 2

\* console.log(`[Server] Running on port: ${port}`)
Announcement(port) ==
    <<"[", "S", "e", "r", "v", "e", "r", "]", " ", "R", "u", "n", "n", "i", "n", "g", " ", "o", "n", " ", "p", "o", "r", "t", ":", " ">> \o Digits(port)

\* console.log(`Web UI: ${localhostURL}`)
WebUiLine(port) ==
    <<"W", "e", "b", " ", "U", "I", ":", " ", "h", "t", "t", "p", ":", "/", "/", "l", "o", "c", "a", "l", "h", "o", "s", "t", ":">> \o Digits(port)

\* output.match(/Server running on port (\d+)/): the digits of the first
\* match, NoText when the output does not match
PortPattern == <<"S", "e", "r", "v", "e", "r", " ", "r", "u", "n", "n", "i", "n", "g", " ", "o", "n", " ", "p", "o", "r", "t", " ">>
RECURSIVE LeadingDigits(_)
LeadingDigits(t) ==
    IF t # <<>> /\ IsDigit(Head(t)) THEN <<Head(t)>> \o LeadingDigits(Tail(t)) ELSE <<>>
PortMatch(output) ==
    LET at == {i \in 1..(Len(output) - Len(PortPattern)) :
                  /\ SubSeq(output, i, i + Len(PortPattern) - 1) = PortPattern
                  /\ IsDigit(output[i + Len(PortPattern)])}
    IN  IF at = {} THEN NoText
        ELSE LET i == CHOOSE i \in at : \A j \in at : i <= j
             IN  LeadingDigits(SubSeq(output, i + Len(PortPattern), Len(output)))

\* main: pc is "init" before app.whenReady, "starting" while startServer is
\* pending, "settled" once its promise is resolved; resolved is the value it
\* resolved with (0: none); announced tells whether the announcement arrived
\* while the promise was pending; initState is the port of the last
\* 'get-init-state' answer (0: none)
InitMain ==
    /\ main = [pc |-> "init", serverPort |-> DefaultServerPort, resolved |-> 0,
               timer |-> "unset", announced |-> FALSE, window |-> FALSE,
               initState |-> 0]
    /\ backend = [state |-> "none", PORT |-> 0, port |-> 0, stdout |-> <<>>]

\* ---------------------------------------------------------------------
\* Text2Image view
\* ---------------------------------------------------------------------

\* requests the view may have in flight at most, and cancel requests
MaxInFlight == 3
MaxCancels == 2

\* view: requests lists the endpoints of the generation requests that were
\* submitted and not answered yet, cancels counts the POST /api/cancel-cli
\* requests not answered yet
InitView ==
    view = [isGenerating |-> FALSE, error |-> FALSE, toast |-> "none",
            requests |-> <<>>, cancels |-> 0]

\* the state after the server module is loaded, for every variable but body
\* and serverLogs
InitSlots ==
    /\ sdProcess = 0
    /\ cliProcess = 0
    /\ srv = [p \in SrvIds |-> NoSrv]
    /\ req = [r \in ReqIds |-> NoReq]
    /\ tempFiles = {}
    /\ outFiles = {}
    /\ now = 1
    /\ crashed = FALSE
    /\ emitted = <<>>
    /\ lastSdArgs = <<>>
    /\ lastResponse = [start |-> NoAnswer, stop |-> NoAnswer]
    /\ cmd = NoCmd
    /\ gen = NoGen
    /\ InitBackend
    /\ InitParams
    /\ InitMain
    /\ logPanel = [logs |-> <<>>, fetched |-> FALSE]
    /\ InitView
    /\ shutdown = [exited |-> FALSE, cloudflareTunnel |-> "none"]

Init ==
    /\ InitSlots
    /\ body = Undef
    /\ serverLogs = <<>>

\* a server whose children have logged n chunks since the last clear
MaxLogLen == 101
InitLogs ==
    /\ InitSlots
    /\ body = Undef
    /\ \E n \in 0..MaxLogLen : serverLogs = [i \in 1..n |-> <<"sd", i>>]

\* first unused id of a pool, 0 when the pool is exhausted
FreeSrv == IF \E p \in SrvIds : srv[p].st = "none" /\ srv[p].resp = <<>>
           THEN CHOOSE p \in SrvIds : /\ srv[p].st = "none" /\ srv[p].resp = <<>>
                                      /\ \A q \in 1..(p-1) : ~(srv[q].st = "none" /\ srv[q].resp = <<>>)
           ELSE 0

FreeReq == IF \E r \in ReqIds : req[r].kind = "none"
           THEN CHOOSE r \in ReqIds : /\ req[r].kind = "none"
                                      /\ \A q \in 1..(r-1) : req[q].kind # "none"
           ELSE 0

\* ---- the clock ----
\* Date.now() moves on; only the equality of the timestamps of two requests
\* matters, so the clock is advanced only past a value that a request has
\* used and while a request can still arrive
Tick ==
    /\ ~crashed
    /\ now < MaxTime
    /\ \E r \in ReqIds : req[r].kind = "none"
    /\ \E r \in ReqIds : req[r].kind # "none" /\ req[r].ts = now
    /\ now' = now + 1
    /\ UNCHANGED <<extVars, sdProcess, cliProcess, serverLogs, srv, req, tempFiles,
                   outFiles, crashed, emitted,
                   controlVars, requestVars>>

\* ---- server slot ----

\* a start guard that lets every request through
StartRejectedNever(process) == FALSE

\* if (sdProcess) return res.status(400).json({ message: 'Server already running' })
StartRejected(process) == process # 0

\* POST /api/start with body b
ApiStart(b, outcome) ==
    /\ ~crashed
    /\ IF StartRejected(sdProcess)
       THEN /\ lastResponse' = [lastResponse EXCEPT
                                  !.start = Answer(@, "Server already running")]
            /\ UNCHANGED <<sdProcess, serverLogs, srv, lastSdArgs>>
       ELSE /\ FreeSrv # 0
            /\ serverLogs' = <<>>
            /\ IF outcome = "throw"
               THEN /\ srv' = [srv EXCEPT ![FreeSrv].resp = <<"Failed to start">>]
                    /\ lastResponse' = [lastResponse EXCEPT
                                          !.start = Answer(@, "Failed to start")]
                    /\ UNCHANGED <<sdProcess, lastSdArgs>>
               ELSE /\ sdProcess' = FreeSrv
                    /\ srv' = [srv EXCEPT ![FreeSrv] =
                                 [st |-> IF outcome = "ok" THEN "running" ELSE "spawnfail",
                                  signalled |-> FALSE,
                                  code |-> IF outcome = "ok" THEN "none" ELSE "ENOENT",
                                  resp |-> <<"Server started">>]]
                    /\ lastSdArgs' = StartArgs(b)
                    /\ lastResponse' = [lastResponse EXCEPT
                                          !.start = Answer(@, "Server started")]
    /\ UNCHANGED <<extVars, cliProcess, req, tempFiles, outFiles, now, crashed, emitted,
                   requestVars>>

\* POST /api/stop
ApiStop ==
    /\ ~crashed
    /\ IF sdProcess # 0
       THEN /\ srv' = [srv EXCEPT ![sdProcess].signalled =
                          (@ \/ srv[sdProcess].st = "running")]
            /\ sdProcess' = 0
            /\ lastResponse' = [lastResponse EXCEPT !.stop = Answer(@, "Stopped")]
       ELSE /\ lastResponse' = [lastResponse EXCEPT !.stop = Answer(@, "Not running")]
            /\ UNCHANGED <<sdProcess, srv>>
    /\ UNCHANGED <<extVars, cliProcess, serverLogs, req, tempFiles, outFiles, now,
                   crashed, emitted, lastSdArgs, requestVars>>

\* sdProcess.stdout.on('data') / sdProcess.stderr.on('data')
SdData(p) ==
    /\ ~crashed
    /\ srv[p].st = "running"
    /\ Len(emitted) < MaxSdChunks
    /\ serverLogs' = Append(serverLogs, <<"sd", p>>)
    /\ emitted' = Append(emitted, <<"sd", p>>)
    /\ UNCHANGED <<extVars, sdProcess, cliProcess, srv, req, tempFiles, outFiles, now,
                   crashed,
                   controlVars, requestVars>>

\* the sd-server process ends: by itself, by an external signal, or by the
\* SIGTERM of sdProcess.kill()
SdExit(p, code) ==
    /\ srv[p].st = "running"
    /\ srv[p].signalled => code = "null"
    /\ srv' = [srv EXCEPT ![p].st = "exited", ![p].code = code]
    /\ UNCHANGED <<extVars, sdProcess, cliProcess, serverLogs, req, tempFiles, outFiles,
                   now, crashed, emitted,
                   controlVars, requestVars>>

\* sdProcess.on('close')
SdClose(p) ==
    /\ ~crashed
    /\ srv[p].st \in {"exited", "errored"}
    /\ srv' = [srv EXCEPT ![p].st = "closed"]
    /\ sdProcess' = 0
    /\ serverLogs' = Append(serverLogs, <<"EXIT", srv[p].code>>)
    /\ UNCHANGED <<extVars, cliProcess, req, tempFiles, outFiles, now, crashed, emitted,
                   controlVars, requestVars>>

\* the 'error' event of a sd-server child that could not be spawned: no
\* listener is registered, so the EventEmitter throws
SdError(p) ==
    /\ ~crashed
    /\ srv[p].st = "spawnfail"
    /\ srv' = [srv EXCEPT ![p].st = "errored"]
    /\ crashed' = TRUE
    /\ UNCHANGED <<extVars, sdProcess, cliProcess, serverLogs, req, tempFiles, outFiles,
                   now, emitted,
                   controlVars, requestVars>>

\* ---- argument builders applied to the request body ----

\* the args that POST /api/start builds from body
ArgsStart ==
    /\ cmd' = [endpoint |-> "start", args |-> StartArgs(body),
               payload |-> NoCmd.payload]
    /\ UNCHANGED <<extVars, sdProcess, cliProcess, serverLogs, srv, req, tempFiles,
                   outFiles, now, crashed, emitted, controlVars, body, gen>>

\* the args that POST /api/generate-cli builds from body; a body without a
\* model is answered MODEL_REQUIRED before any argument is built
ArgsGenerateCli ==
    /\ Truthy(body.diffusionModel)
    /\ cmd' = [endpoint |-> "generate-cli", args |-> GenerateCliArgs(body, now),
               payload |-> NoCmd.payload]
    /\ UNCHANGED <<extVars, sdProcess, cliProcess, serverLogs, srv, req, tempFiles,
                   outFiles, now, crashed, emitted, controlVars, body, gen>>

\* the args that POST /api/inpaint builds from body; a body without an
\* existing init image is answered 'Init image required' before
ArgsInpaint ==
    /\ Truthy(body.initImg)
    /\ cmd' = [endpoint |-> "inpaint", args |-> InpaintArgs(body, now),
               payload |-> NoCmd.payload]
    /\ UNCHANGED <<extVars, sdProcess, cliProcess, serverLogs, srv, req, tempFiles,
                   outFiles, now, crashed, emitted, controlVars, body, gen>>

\* the args that POST /api/generate-video builds from body
ArgsGenerateVideo ==
    /\ cmd' = [endpoint |-> "generate-video",
               args |-> GenerateVideoArgs(body, now), payload |-> NoCmd.payload]
    /\ UNCHANGED <<extVars, sdProcess, cliProcess, serverLogs, srv, req, tempFiles,
                   outFiles, now, crashed, emitted, controlVars, body, gen>>

\* the payload that POST /api/generate builds from body
PayloadGenerate ==
    /\ cmd' = [endpoint |-> "generate", args |-> <<>>,
               payload |-> GeneratePayload(body)]
    /\ UNCHANGED <<extVars, sdProcess, cliProcess, serverLogs, srv, req, tempFiles,
                   outFiles, now, crashed, emitted, controlVars, body, gen>>

\* ---- server-mode generation ----

\* const { ..., batch_size = 1, ... } = req.body, as the bound of `i < batch_size`
BatchSize(b) == IF b.batch_size = Undef THEN 1
                ELSE IF ToNumber(b.batch_size).t = "NaN" THEN 0
                ELSE ToNumber(b.batch_size).n

\* if (payload.seed !== -1 && i > 0) payload.seed += 1
NextSeed(seed, i) == IF seed # Num(-1) /\ i > 0 THEN Num(seed.n + 1) ELSE seed

\* the --listen-port of the sd-server that runs, "" when none does
RunningPort == IF sdProcess = 0 THEN "" ELSE ListenPort(lastSdArgs)

\* POST /api/generate with body b, up to the first await of the batch loop
ApiGenerate(b) ==
    /\ ~crashed
    /\ gen.pc = "idle"
    /\ IF sdProcess = 0
       THEN gen' = [gen EXCEPT !.pc = "done", !.seed = b.seed,
                               !.batch_size = BatchSize(b),
                               !.resp = <<"Server not running">>]
       ELSE LET payload == GeneratePayload(b)
            IN IF 0 < BatchSize(b)
               THEN gen' = [gen EXCEPT !.pc = "await", !.seed = b.seed,
                                       !.batch_size = BatchSize(b),
                                       !.payload = [payload EXCEPT
                                                      !.seed = NextSeed(@, 0)],
                                       !.dispatched = <<NextSeed(payload.seed, 0)>>,
                                       !.port = FetchPort,
                                       !.serverPort = RunningPort]
               ELSE gen' = [gen EXCEPT !.pc = "done", !.seed = b.seed,
                                       !.batch_size = BatchSize(b),
                                       !.payload = payload,
                                       !.resp = <<"Complete">>]
    /\ UNCHANGED <<extVars, sdProcess, cliProcess, serverLogs, srv, req, tempFiles,
                   outFiles, now, crashed, emitted, controlVars, body, cmd>>

\* the sd-server answers the fetch of iteration i; the handler stores the
\* image and goes on to the next iteration or to the response
GenerateResponse(ok) ==
    /\ ~crashed
    /\ gen.pc = "await"
    /\ IF ~ok
       THEN /\ gen' = [gen EXCEPT !.pc = "done", !.resp = <<"Generation failed">>]
            /\ UNCHANGED outFiles
       ELSE /\ outFiles' = outFiles \cup {<<"gen", now, gen.i>>}
            /\ IF gen.i + 1 < gen.batch_size
               THEN gen' = [gen EXCEPT
                              !.i = @ + 1,
                              !.generatedFiles = Append(@, <<"gen", now, gen.i>>),
                              !.payload.seed = NextSeed(@, gen.i + 1),
                              !.dispatched = Append(@, NextSeed(gen.payload.seed,
                                                                gen.i + 1)),
                              !.port = FetchPort,
                              !.serverPort = RunningPort]
               ELSE gen' = [gen EXCEPT
                              !.i = @ + 1,
                              !.generatedFiles = Append(@, <<"gen", now, gen.i>>),
                              !.pc = "done",
                              !.resp = <<"Complete">>]
    /\ UNCHANGED <<extVars, sdProcess, cliProcess, serverLogs, srv, req, tempFiles,
                   now, crashed, emitted, controlVars, body, cmd>>

\* ---- log endpoints ----

\* GET /api/logs
ApiLogs(since, limit) == SubSeq(serverLogs, since + 1,
                                IF since + limit < Len(serverLogs)
                                THEN since + limit ELSE Len(serverLogs))

\* POST /api/logs/clear
ApiLogsClear ==
    /\ ~crashed
    /\ serverLogs' = <<>>
    /\ emitted' = <<>>
    /\ UNCHANGED <<extVars, sdProcess, cliProcess, srv, req, tempFiles, outFiles, now,
                   crashed,
                   controlVars, requestVars>>

\* ---- cli slot ----

CliKinds == {"gen", "inpaint", "video"}

\* the paths under TEMP_DIR that the upload middleware creates at time ts:
\* pm_<ts> and kontext_<ts> directories, initImage_<ts>.png, mask_<ts>.png,
\* video_init_<ts>.png
TempPaths(kinds, ts) == {<<k, ts>> : k \in kinds}

\* history: a CLI child process is alive
CliBusy == \E q \in ReqIds : req[q].kind \in CliKinds /\ req[q].st = "running"

\* the output field of a failure response: <<>> when the body has no such
\* field, else <<output>>. Only the 'no output file' answers of inpaint and
\* video pass the accumulated output; generate-cli accumulates none, and the
\* catch blocks answer with e.message alone
CliFailureOutput(kind, message, output) ==
    IF message = "no output file" /\ kind \in {"inpaint", "video"}
    THEN <<output>> ELSE <<>>

\* the checks of CliResponse in the other order
CliResponseArtifactFirst(cancelled, artifact) ==
    IF artifact THEN "Complete"
    ELSE IF cancelled THEN "Cancelled"
    ELSE "no output file"

\* the response that follows the awaited promise when it resolved
CliResponse(cancelled, artifact) ==
    IF cancelled THEN "Cancelled"
    ELSE IF artifact THEN "Complete"
    ELSE "no output file"

\* spawn(getSdCliPath(), args, ...) up to the await of a CLI handler, with
\* the catch block for a synchronous exception of spawn
CliSpawn(r, kind, hasModel, temps, preview, outcome) ==
    LET base == [NoReq EXCEPT !.kind = kind, !.hasModel = hasModel,
                              !.ts = now, !.preview = preview,
                              !.temps = temps, !.outPath = <<kind, now>>,
                              !.busyAtArrival = CliBusy]
    IN IF outcome = "throw"
       THEN /\ cliProcess' = 0
            /\ tempFiles' = tempFiles \ temps
            /\ req' = [req EXCEPT ![r] =
                         [base EXCEPT !.settled = TRUE, !.resp = <<"failed">>,
                                      !.artifactAtAnswer = (<<kind, now>> \in outFiles)]]
       ELSE /\ cliProcess' = r
            /\ tempFiles' = tempFiles \cup temps
            /\ req' = [req EXCEPT ![r] =
                         [base EXCEPT !.st = IF outcome = "ok" THEN "running" ELSE "spawnfail",
                                      !.code = IF outcome = "ok" THEN "none" ELSE "ENOENT"]]

\* POST /api/generate-cli; uploads names the uploaded file fields, and
\* "preview" when the body sets livePreviewMethod: the child is then told to
\* write its previews to path.join(TEMP_DIR, 'preview.png')
ApiGenerateCli(hasModel, uploads, outcome) ==
    LET r == FreeReq
        temps == TempPaths(uploads \ {"preview"}, now)
    IN /\ ~crashed
       /\ r # 0
       /\ IF ~hasModel
          THEN /\ tempFiles' = tempFiles \cup temps
               /\ req' = [req EXCEPT ![r] =
                            [NoReq EXCEPT !.kind = "gen", !.ts = now, !.temps = temps,
                                          !.outPath = <<"gen", now>>,
                                          !.busyAtArrival = CliBusy,
                                          !.resp = <<"MODEL_REQUIRED">>]]
               /\ UNCHANGED cliProcess
          ELSE CliSpawn(r, "gen", hasModel, temps, "preview" \in uploads, outcome)
       /\ UNCHANGED <<extVars, sdProcess, serverLogs, srv, outFiles, now, crashed, emitted,
                      controlVars, requestVars>>

\* POST /api/inpaint; init is "upload" (multipart initImage), "gallery"
\* (initImagePath of an existing output file) or "none"
ApiInpaint(hasModel, init, mask, outcome) ==
    LET r == FreeReq
        temps == TempPaths((IF init = "upload" THEN {"initImage"} ELSE {})
                           \cup (IF mask THEN {"mask"} ELSE {}), now)
    IN /\ ~crashed
       /\ r # 0
       /\ IF init = "none"
          THEN /\ tempFiles' = tempFiles \cup temps
               /\ req' = [req EXCEPT ![r] =
                            [NoReq EXCEPT !.kind = "inpaint", !.ts = now, !.temps = temps,
                                          !.hasModel = hasModel,
                                          !.outPath = <<"inpaint", now>>,
                                          !.busyAtArrival = CliBusy,
                                          !.resp = <<"Init image required">>]]
               /\ UNCHANGED cliProcess
          ELSE CliSpawn(r, "inpaint", hasModel, temps, FALSE, outcome)
       /\ UNCHANGED <<extVars, sdProcess, serverLogs, srv, outFiles, now, crashed, emitted,
                      controlVars, requestVars>>

\* POST /api/generate-video
ApiGenerateVideo(hasModel, initUpload, outcome) ==
    LET r == FreeReq
        temps == TempPaths(IF initUpload THEN {"video_init"} ELSE {}, now)
    IN /\ ~crashed
       /\ r # 0
       /\ CliSpawn(r, "video", hasModel, temps, FALSE, outcome)
       /\ UNCHANGED <<extVars, sdProcess, serverLogs, srv, outFiles, now, crashed, emitted,
                      controlVars, requestVars>>

\* a CLI child writes a chunk to stdout / stderr (output: what the child
\* has written). cliProcess.stdout.on('data') / cliProcess.stderr.on('data')
\* of inpaint and video add it to the handler's output and to serverLogs;
\* the generate-cli child inherits the terminal of the server
CliData(r) ==
    /\ ~crashed
    /\ req[r].kind \in CliKinds
    /\ req[r].st = "running"
    /\ Len(emitted) < MaxCliChunks
    /\ Len(req[r].output) < MaxCliChunks
    /\ emitted' = Append(emitted, <<req[r].kind, r>>)
    /\ serverLogs' = IF req[r].kind = "gen" THEN serverLogs
                     ELSE Append(serverLogs, <<req[r].kind, r>>)
    /\ req' = [req EXCEPT ![r].output = Append(@, <<req[r].kind, r>>)]
    /\ UNCHANGED <<extVars, sdProcess, cliProcess, srv, tempFiles, outFiles, now,
                   crashed,
                   controlVars, requestVars>>

\* a CLI or convert child ends: by itself, by an external signal, or by the
\* SIGTERM of cliProcess.kill('SIGTERM'); it may have written (part of) its
\* output file
ChildExit(r, code, wrote) ==
    /\ req[r].st = "running"
    /\ req[r].signalled => code = "null"
    /\ req' = [req EXCEPT ![r].st = "exited", ![r].code = code]
    /\ outFiles' = IF wrote THEN outFiles \cup {req[r].outPath} ELSE outFiles
    /\ UNCHANGED <<extVars, sdProcess, cliProcess, serverLogs, srv, tempFiles, now,
                   crashed, emitted,
                   controlVars, requestVars>>

\* cliProcess.on('close') and the continuation of the handler after the await
CliClose(r) ==
    /\ ~crashed
    /\ req[r].kind \in CliKinds
    /\ req[r].st \in {"exited", "errored"}
    /\ cliProcess' = 0
    /\ IF req[r].settled
       THEN /\ req' = [req EXCEPT ![r].st = "closed"]
            /\ UNCHANGED tempFiles
       ELSE LET message == IF req[r].code \in {"0", "null"}
                           THEN CliResponse(req[r].code = "null",
                                            req[r].outPath \in outFiles)
                           ELSE "failed"
            IN /\ tempFiles' = tempFiles \ req[r].temps
               /\ req' = [req EXCEPT
                     ![r].st = "closed",
                     ![r].settled = TRUE,
                     ![r].artifactAtAnswer = (req[r].outPath \in outFiles),
                     ![r].resp = <<message>>,
                     ![r].respOutput = CliFailureOutput(req[r].kind, message,
                                                        req[r].output)]
    /\ UNCHANGED <<extVars, sdProcess, serverLogs, srv, outFiles, now, crashed, emitted,
                   controlVars, requestVars>>

\* cliProcess.on('error') of a child that could not be spawned, and the
\* catch block of the handler. The generate-cli child has stdio 'inherit':
\* with no pipe to drain, Node emits its 'close' in the same tick, where the
\* close callback sets cliProcess to null again and rejects a settled promise
CliError(r) ==
    /\ ~crashed
    /\ req[r].kind \in CliKinds
    /\ req[r].st = "spawnfail"
    /\ cliProcess' = 0
    /\ tempFiles' = tempFiles \ req[r].temps
    /\ req' = [req EXCEPT ![r].st = IF req[r].kind = "gen" THEN "closed" ELSE "errored",
                          ![r].settled = TRUE,
                          ![r].artifactAtAnswer = (req[r].outPath \in outFiles),
                          ![r].resp = <<"failed">>]
    /\ UNCHANGED <<extVars, sdProcess, serverLogs, srv, outFiles, now, crashed, emitted,
                   controlVars, requestVars>>

\* POST /api/cancel-cli: kill('SIGTERM') reaches the child that cliProcess
\* names, if that process is still alive
ApiCancelCli ==
    /\ ~crashed
    /\ req' = [r \in ReqIds |->
                IF req[r].kind \in CliKinds /\ req[r].st = "running"
                THEN [req[r] EXCEPT !.cancelWhileRunning = TRUE,
                                    !.signalled = (@ \/ (cliProcess # 0 /\ r = cliProcess))]
                ELSE req[r]]
    /\ UNCHANGED <<extVars, sdProcess, cliProcess, serverLogs, srv, tempFiles, outFiles,
                   now, crashed, emitted,
                   controlVars, requestVars>>

\* ---- model conversion ----

\* POST /api/convert; valid says that the parameters are present, the source
\* model and sd-cli exist and the output file does not
ApiConvert(valid, outcome) ==
    LET r == FreeReq
    IN /\ ~crashed
       /\ r # 0
       /\ req' = [req EXCEPT ![r] =
            IF ~valid
            THEN [NoReq EXCEPT !.kind = "convert", !.hasModel = FALSE,
                               !.resp = <<"convert rejected">>]
            ELSE IF outcome = "throw"
            THEN [NoReq EXCEPT !.kind = "convert", !.hasModel = TRUE,
                               !.outPath = <<"convert", r>>,
                               !.resp = <<"convert error">>]
            ELSE [NoReq EXCEPT !.kind = "convert", !.hasModel = TRUE,
                               !.outPath = <<"convert", r>>,
                               !.st = IF outcome = "ok" THEN "running" ELSE "spawnfail",
                               !.code = IF outcome = "ok" THEN "none" ELSE "ENOENT"]]
       /\ UNCHANGED <<extVars, sdProcess, cliProcess, serverLogs, srv, tempFiles,
                      outFiles, now, crashed, emitted,
                      controlVars, requestVars>>

\* convertProcess.on('close'): res.json on a response that 'error' already
\* answered throws ERR_HTTP_HEADERS_SENT inside the event callback
ConvertClose(r) ==
    /\ ~crashed
    /\ req[r].kind = "convert"
    /\ req[r].st \in {"exited", "errored"}
    /\ req' = [req EXCEPT
          ![r].st = "closed",
          ![r].artifactAtAnswer = IF req[r].resp = <<>>
                                  THEN req[r].outPath \in outFiles ELSE @,
          ![r].resp = Append(@, IF req[r].code = "0" /\ req[r].outPath \in outFiles
                                THEN "convert success" ELSE "convert failed")]
    /\ crashed' = (req[r].resp # <<>>)
    /\ UNCHANGED <<extVars, sdProcess, cliProcess, serverLogs, srv, tempFiles, outFiles,
                   now, emitted,
                   controlVars, requestVars>>

\* convertProcess.on('error')
ConvertError(r) ==
    /\ ~crashed
    /\ req[r].kind = "convert"
    /\ req[r].st = "spawnfail"
    /\ req' = [req EXCEPT ![r].st = "errored",
                          ![r].artifactAtAnswer = (req[r].outPath \in outFiles),
                          ![r].resp = Append(@, "convert error")]
    /\ UNCHANGED <<extVars, sdProcess, cliProcess, serverLogs, srv, tempFiles, outFiles,
                   now, crashed, emitted,
                   controlVars, requestVars>>

\* ---- inputs of the requests ----
\* bodies of POST /api/start: a standard and a split configuration
StartBodies ==
    {[NoBody EXCEPT !.loadMode = Str("standard"),
                    !.diffusionModel = Str("sd15.safetensors")],
     [NoBody EXCEPT !.loadMode = Str("split"),
                    !.diffusionModel = Str("flux.gguf"),
                    !.vae = Str("ae.safetensors"),
                    !.diffusionFa = Bool(TRUE)]}
GenUploads == {{}, {"pm", "kontext", "preview"}}
InpaintUploads == {<<"upload", TRUE>>, <<"gallery", FALSE>>, <<"none", TRUE>>,
                   <<"none", FALSE>>}

\* bodies of POST /api/start that name a port
PortBodies ==
    {[NoBody EXCEPT !.loadMode = Str("standard"),
                    !.diffusionModel = Str("sd15.safetensors"),
                    !.port = pt] : pt \in {Num(1234), Num(8080)}}

\* bodies of POST /api/generate
MaxBatch == 3
Seeds == {Undef, Num(-1), Num(0), Num(1), Num(42), NumStr(7)}
Batches == {Undef} \cup {Num(k) : k \in 0..MaxBatch}
GenerateBodies ==
    {[NoBody EXCEPT !.prompt = Str("a cat"), !.width = Num(512),
                    !.height = Num(512), !.seed = sd, !.batch_size = n] :
        sd \in Seeds, n \in Batches}

\* bodies of the argument builders: each family varies the fields of one
\* concern over a body with a model, a prompt and an init image
MaxDim == 130
PlainBody == [NoBody EXCEPT !.diffusionModel = Str("sd15.safetensors"),
                            !.prompt = Str("a cat"),
                            !.initImg = Str("temp/initImage_1.png")]
ModelNames == {Undef, Str(""), Str("model.safetensors")}
Names == {Undef, Str("x.safetensors")}
LoadModes == {Undef, Str("split"), Str("standard")}
Numbers == {Undef, Num(0), NumStr(0), Num(5)}
SeedInputs == {Undef, Num(-1), Num(0), Num(42)}
Dims == {Undef, Num(777), Num(1000), NumStr(1000)} \cup {Num(n) : n \in 1..MaxDim}
BoolInputs == {Undef, Bool(TRUE), Bool(FALSE), Str("true"), Str("false")}
Prompts == {Undef, Str("a cat"), Str("a cat <lora:detail:1>")}

ModelBody(lm, dm, cl, cg, t5, l, v, cv) ==
    [PlainBody EXCEPT !.loadMode = lm, !.diffusionModel = dm, !.clipL = cl,
                       !.clipG = cg, !.t5xxl = t5, !.llm = l, !.vae = v,
                       !.clipVision = cv, !.highNoiseDiffusionModel = cv]

NumericBody(st, cfg, sd) ==
    [PlainBody EXCEPT !.steps = st, !.cfg_scale = cfg, !.seed = sd,
                       !.strength = st, !.videoFrames = st, !.flowShift = cfg,
                       !.defaultSteps = st, !.defaultCfg = cfg,
                       !.guidance = cfg, !.clip_skip = sd, !.batchCount = st]

DimBody(w, h) == [PlainBody EXCEPT !.width = w, !.height = h]

FlagBody(p, fa, vt, cc, oc, x) ==
    [PlainBody EXCEPT !.prompt = p, !.diffusionFa = fa, !.vaeTiling = vt,
                       !.clipOnCpu = cc, !.offloadToCpu = oc, !.vaeOnCpu = x,
                       !.diffusionConvDirect = x, !.vaeConvDirect = x,
                       !.forceSDXLVaeConvScale = x, !.applyCanny = x,
                       !.controlNet = Str("canny.safetensors")]

FeatureBody(lm, p, np, ed, k, pm, cn, lp) ==
    [PlainBody EXCEPT !.loadMode = lm, !.prompt = p, !.negative_prompt = np,
                       !.embeddingsDir = ed, !.loraDir = ed,
                       !.kontextRefPath = IF k THEN Str("temp/kontext_1/ref.png") ELSE Undef,
                       !.photoMaker = pm, !.pmImagesDir = IF k THEN Str("temp/pm_1") ELSE Undef,
                       !.pmStyleStrength = IF k THEN Num(20) ELSE Undef,
                       !.controlNet = cn,
                       !.controlImagePath = IF k THEN Str("temp/pm_1/1_pose.png") ELSE Undef,
                       !.livePreviewMethod = lp, !.upscaleModel = pm,
                       !.taesdModel = cn, !.quantizationType = lp,
                       !.scheduler = lp, !.samplingMethod = lp,
                       !.maskPath = IF k THEN Str("temp/mask_1.png") ELSE Undef,
                       !.highNoiseDiffusionModel = pm, !.highNoiseSampler = lp]

\* cliUpload's destination for a file of a field: kontext_<ts> for the
\* Kontext reference, pm_<ts> for every other field
Destination(fieldname) ==
    IF fieldname = "kontextRefImage" THEN "kontext" ELSE "pm"

\* a generate-cli request with uploaded files and, with gallery, PhotoMaker
\* images named in pmGalleryImages
UploadFields == {"pmImages", "kontextRefImage", "controlNetImage"}
UploadBody(pm, cn, files, gallery) ==
    LET inPm == {f \in files : Destination(f) = "pm"}
                    \cup (IF gallery THEN {"pmGalleryImages"} ELSE {})
    IN  [PlainBody EXCEPT
            !.photoMaker = pm, !.controlNet = cn,
            !.files = files, !.pmDirFiles = inPm,
            !.pmImagesDir = IF inPm # {} THEN Str("temp/pm_1") ELSE Undef,
            !.kontextRefPath = IF "kontextRefImage" \in files
                               THEN Str("temp/kontext_1/1_ref.png") ELSE Undef,
            !.controlImagePath = IF "controlNetImage" \in files
                                 THEN Str("temp/pm_1/1_pose.png") ELSE Undef]

\* ---------------------------------------------------------------------
\* Backend-management endpoints
\* ---------------------------------------------------------------------

\* { ...backendConfig, ...req.body }
Merge(config, b) ==
    [k \in DOMAIN config \cup DOMAIN b |-> IF k \in DOMAIN b THEN b[k] ELSE config[k]]

\* the server process starts again: let backendConfig = loadBackendConfig()
BackendReload ==
    /\ backendAnswer.endpoint # "none"
    /\ backendConfig' = LoadBackendConfig(configFile)
    /\ backendAnswer' = NoBackendAnswer
    /\ UNCHANGED <<logPanel, sideVars, coreVars, paramsVars, mainVars, configFile, releases>>

\* POST /api/backend/config with body b; ok: writeFileSync does not throw
ApiBackendConfig(b, ok) ==
    /\ backendConfig' = Merge(backendConfig, b)
    /\ configFile' = SaveBackendConfig(configFile, backendConfig', ok)
    /\ backendAnswer' = BackendAnswer("config", IF ok THEN 200 ELSE 500, TRUE)
    /\ UNCHANGED <<logPanel, sideVars, coreVars, paramsVars, mainVars, releases>>

\* POST /api/backend/download of version ("" when url or version is missing);
\* archive is what the download and extraction give: "fail" when one of them
\* throws, "binary" when sd-server lands in the version directory, "empty"
\* when the archive is extracted and no sd-server lies in the directory
ApiBackendDownload(version, archive, ok) ==
    IF version = ""
    THEN /\ backendAnswer' = BackendAnswer("download", 400, FALSE)
         /\ UNCHANGED <<logPanel, sideVars, coreVars, paramsVars, mainVars, backendConfig, configFile, releases>>
    ELSE /\ releases' = [releases EXCEPT ![version] =
                            IF archive = "binary" \/ @ = "binary"
                            THEN "binary" ELSE "empty"]
         /\ IF archive = "fail"
            THEN /\ backendAnswer' = BackendAnswer("download", 500, FALSE)
                 /\ UNCHANGED <<backendConfig, configFile>>
            ELSE /\ backendConfig' =
                        [backendConfig EXCEPT
                            !.activeVersion = version,
                            !.installedVersions =
                                IF \E i \in DOMAIN @ : @[i] = version
                                THEN @ ELSE Append(@, version)]
                 /\ configFile' = SaveBackendConfig(configFile, backendConfig', ok)
                 /\ backendAnswer' =
                        BackendAnswer("download", IF ok THEN 200 ELSE 500, TRUE)
         /\ UNCHANGED <<logPanel, sideVars, coreVars, paramsVars, mainVars>>

\* POST /api/backend/use-custom
ApiBackendUseCustom(ok) ==
    /\ backendConfig' = [backendConfig EXCEPT !.activeVersion = "custom"]
    /\ configFile' = SaveBackendConfig(configFile, backendConfig', ok)
    /\ backendAnswer' = BackendAnswer("use-custom", IF ok THEN 200 ELSE 500, TRUE)
    /\ UNCHANGED <<logPanel, sideVars, coreVars, paramsVars, mainVars, releases>>

\* POST /api/backend/set-active of version ("" when the body has none)
ApiBackendSetActive(version, ok) ==
    IF version = "" \/ (version # "custom" /\ ~HasSdServer(version))
    THEN /\ backendAnswer' = BackendAnswer("set-active", 400, FALSE)
         /\ UNCHANGED <<logPanel, sideVars, coreVars, paramsVars, mainVars, backendConfig, configFile, releases>>
    ELSE /\ backendConfig' = [backendConfig EXCEPT !.activeVersion = version]
         /\ configFile' = SaveBackendConfig(configFile, backendConfig', ok)
         /\ backendAnswer' =
                BackendAnswer("set-active", IF ok THEN 200 ELSE 500, TRUE)
         /\ UNCHANGED <<logPanel, sideVars, coreVars, paramsVars, mainVars, releases>>

\* req.body of POST /api/backend/config: any subset of the keys
EmptyBody == [k \in {} |-> ""]
ConfigBodies ==
    {EmptyBody} \cup {[activeVersion |-> v] : v \in Versions \cup {"custom"}}
        \cup {[installedVersions |-> <<>>]}
VersionInputs == Versions \cup {"custom", ""}
Archives == {"fail", "binary", "empty"}

\* ---------------------------------------------------------------------
\* Image parameters
\* ---------------------------------------------------------------------

\* prompts and negative prompts of the model
PromptTexts ==
    {<<"a">>, <<"a", " ">>, <<"a", "\n", "b">>,
     <<"a", "\n">> \o StepsKey \o <<"b">>,
     <<"a", "\n">> \o NegativePromptKey \o <<"b">>}
NegativeTexts == {<<>>, <<"u">>, <<"u", "\n", "v">>, <<"\n", "v">>}
StepCounts == {1, 20}
CfgTenths == {70, 75}
SeedValues == {0, 42}
Sizes == {<<512, 512>>, <<64, 128>>}

\* sd-cli writes an output PNG whose 'parameters' chunk carries the values
\* it generated with
SdCliWritesImage(p, np, st, cfg, sd, size) ==
    /\ image' = LET m == [prompt |-> p, negativePrompt |-> np, steps |-> st,
                           cfgScale |-> cfg, seed |-> sd,
                           width |-> size[1], height |-> size[2]]
                IN  [written |-> TRUE, meta |-> m, file |-> PngFile(m)]
    /\ params' = NoParams
    /\ UNCHANGED <<logPanel, sideVars, coreVars, backendVars, mainVars>>

\* POST /api/image/params for the image
ApiImageParams ==
    /\ image.written
    /\ params' = ImageParams(ReadPngParams(image.file))
    /\ UNCHANGED <<logPanel, sideVars, coreVars, backendVars, mainVars, image>>

\* ---------------------------------------------------------------------
\* Electron main process
\* ---------------------------------------------------------------------

\* app.whenReady: startServer() spawns the server with the arguments of the
\* application (portArg 0: no --port) and sets the 3-second fallback
MainStartServer(portArg) ==
    /\ main.pc = "init"
    /\ main' = [main EXCEPT !.pc = "starting", !.timer = "set"]
    /\ backend' = [backend EXCEPT
                      !.state = "initializing",
                      !.PORT = IF portArg = 0 THEN DefaultPort ELSE portArg]
    /\ UNCHANGED <<logPanel, sideVars, coreVars, backendVars, paramsVars>>

\* findAvailablePort(PORT) finds the first shift ports in use, the server
\* listens on the next one and logs its URL and the announcement; the pipe
\* carries the two lines as one chunk (merged) or as two
BackendListen(shift, merged) ==
    /\ backend.state = "initializing"
    /\ LET port == backend.PORT + shift
       IN  backend' = [backend EXCEPT
               !.state = "listening",
               !.port = port,
               !.stdout =
                   IF merged
                   THEN <<WebUiLine(port) \o <<"\n">> \o Announcement(port) \o <<"\n">>>>
                   ELSE <<WebUiLine(port) \o <<"\n">>,
                          Announcement(port) \o <<"\n">>>>]
    /\ UNCHANGED <<logPanel, sideVars, coreVars, backendVars, paramsVars, main>>

\* serverProcess.stdout.on('data'): the first chunk of the pipe
MainStdoutData ==
    /\ backend.stdout # <<>>
    /\ LET portMatch == PortMatch(Head(backend.stdout))
       IN  main' = [main EXCEPT
                       !.announced =
                           \/ @
                           \/ /\ main.pc = "starting"
                              /\ IndexOf(Head(backend.stdout),
                                         Announcement(backend.port)) # 0,
                       !.serverPort =
                           IF portMatch # NoText THEN ParseIntText(portMatch).n ELSE @,
                       !.pc = IF portMatch # NoText /\ @ = "starting"
                              THEN "settled" ELSE @,
                       !.resolved =
                           IF portMatch # NoText /\ main.pc = "starting"
                           THEN ParseIntText(portMatch).n ELSE @]
    /\ backend' = [backend EXCEPT !.stdout = Tail(@)]
    /\ UNCHANGED <<logPanel, sideVars, coreVars, backendVars, paramsVars>>

\* setTimeout(() => resolve(serverPort), 3000)
MainFallback ==
    /\ main.timer = "set"
    /\ main' = [main EXCEPT
                   !.timer = "fired",
                   !.pc = IF @ = "starting" THEN "settled" ELSE @,
                   !.resolved = IF main.pc = "starting" THEN main.serverPort ELSE @]
    /\ UNCHANGED <<logPanel, sideVars, coreVars, backendVars, paramsVars, backend>>

\* after await startServer(): createWindow()
MainCreateWindow ==
    /\ main.pc = "settled"
    /\ ~main.window
    /\ main' = [main EXCEPT !.window = TRUE]
    /\ UNCHANGED <<logPanel, sideVars, coreVars, backendVars, paramsVars, backend>>

\* ipcMain.handle('get-init-state') / ('get-server-port'), asked by the window
IpcGetInitState ==
    /\ main.window
    /\ main' = [main EXCEPT !.initState = main.serverPort]
    /\ UNCHANGED <<logPanel, sideVars, coreVars, backendVars, paramsVars, backend>>

\* '--port' arguments of the model: none, or one other than the default
PortArgs == {0, 3001}

\* ---------------------------------------------------------------------
\* Log panel
\* ---------------------------------------------------------------------

\* GET /api/logs with the query values since and limit: the logs of the answer
DefaultLogLimit == 100
ApiLogsQuery(since, limit) ==
    ApiLogs(Or(ParseInt(since), Num(0)).n, Or(ParseInt(limit), Num(DefaultLogLimit)).n)

\* fetchLogs(): apiGet('/api/logs') without a query, logs.value = result.logs
PanelFetchLogs ==
    /\ logPanel' = [logs |-> ApiLogsQuery(Undef, Undef), fetched |-> TRUE]
    /\ UNCHANGED <<coreVars, extVarsButPanel>>

\* clearLogs(): POST /api/logs/clear, logs.value = []
PanelClearLogs ==
    /\ serverLogs' = <<>>
    /\ logPanel' = [logs |-> <<>>, fetched |-> FALSE]
    /\ UNCHANGED <<extVarsButPanel, sdProcess, cliProcess, srv, req, tempFiles,
                   outFiles, now, crashed, emitted, controlVars, requestVars>>

\* ---------------------------------------------------------------------
\* Text2Image view
\* ---------------------------------------------------------------------

\* the Generate button is rendered while isGenerating is false
GenerateShown(isGenerating) == ~isGenerating

\* handleGenerate() up to its await, with a prompt that is not blank: the
\* request goes to /api/generate-cli or, in server mode, to /api/generate
ViewHandleGenerate(endpoint) ==
    /\ GenerateShown(view.isGenerating)
    /\ Len(view.requests) < MaxInFlight
    /\ view' = [view EXCEPT !.isGenerating = TRUE, !.error = FALSE,
                            !.requests = Append(@, endpoint)]
    /\ UNCHANGED <<coreVars, backendVars, paramsVars, mainVars, logPanel, shutdown>>

\* the answer to the i-th request in flight arrives: handleGenerate()
\* resumes with file names ("image"), with {message: 'Cancelled'}
\* ("cancelled") or in its catch block ("error"), and ends in its finally
\* block
ViewGenerateAnswered(i, result) ==
    /\ i \in DOMAIN view.requests
    /\ view' = [view EXCEPT
                   !.isGenerating = FALSE,
                   !.error = IF result = "error" THEN TRUE ELSE @,
                   !.toast = IF result = "image" THEN "Generation complete!"
                             ELSE IF result = "error" THEN "error" ELSE @,
                   !.requests = SubSeq(@, 1, i - 1) \o SubSeq(@, i + 1, Len(@))]
    /\ UNCHANGED <<coreVars, backendVars, paramsVars, mainVars, logPanel, shutdown>>

\* handleCancel() up to its await: the Cancel button is rendered while
\* isGenerating is true
ViewHandleCancel ==
    /\ view.isGenerating
    /\ view.cancels < MaxCancels
    /\ view' = [view EXCEPT !.cancels = @ + 1]
    /\ UNCHANGED <<coreVars, backendVars, paramsVars, mainVars, logPanel, shutdown>>

\* the answer to a cancel request arrives (ok) or the request fails:
\* handleCancel() resumes and sets isGenerating to false
ViewCancelAnswered(ok) ==
    /\ view.cancels > 0
    /\ view' = [view EXCEPT
                   !.cancels = @ - 1,
                   !.toast = IF ok THEN "Generation cancelled"
                             ELSE "Failed to cancel generation",
                   !.isGenerating = FALSE]
    /\ UNCHANGED <<coreVars, backendVars, paramsVars, mainVars, logPanel, shutdown>>

\* ---------------------------------------------------------------------
\* Exit of the server process
\* ---------------------------------------------------------------------

\* startCloudflare(port): cloudflareTunnel = spawn(cloudflaredBin, ...)
StartCloudflare ==
    /\ shutdown.cloudflareTunnel = "none"
    /\ shutdown' = [shutdown EXCEPT !.cloudflareTunnel = "running"]
    /\ UNCHANGED <<coreVars, backendVars, paramsVars, mainVars, logPanel, view>>

\* cleanup(), the handler of SIGINT and SIGTERM: stopNgrok, stopCloudflare,
\* cliProcess.kill() if cliProcess is set, process.exit()
Cleanup ==
    /\ ~crashed
    /\ shutdown' = [exited |-> TRUE,
                    cloudflareTunnel |->
                        IF shutdown.cloudflareTunnel = "running"
                        THEN "signalled" ELSE shutdown.cloudflareTunnel]
    /\ req' = [r \in ReqIds |->
                IF cliProcess # 0 /\ r = cliProcess /\ req[r].st = "running"
                THEN [req[r] EXCEPT !.signalled = TRUE]
                ELSE req[r]]
    /\ UNCHANGED <<backendVars, paramsVars, mainVars, logPanel, view, sdProcess,
                   cliProcess, serverLogs, srv, tempFiles, outFiles, now,
                   crashed, emitted, controlVars, requestVars>>

\* the server slot and the log endpoints
NextServer ==
    \/ \E b \in StartBodies, o \in SpawnOutcomes : ApiStart(b, o)
    \/ ApiStop
    \/ \E p \in SrvIds : SdData(p)
    \/ \E p \in SrvIds, c \in ExitCodes : SdExit(p, c)
    \/ \E p \in SrvIds : SdClose(p)
    \/ \E p \in SrvIds : SdError(p)
    \/ ApiLogsClear

SpecServer == Init /\ [][NextServer]_vars

\* server-mode generation against the server slot
NextGenerate ==
    \/ \E b \in StartBodies \cup PortBodies, o \in SpawnOutcomes : ApiStart(b, o)
    \/ ApiStop
    \/ \E b \in GenerateBodies : ApiGenerate(b)
    \/ \E ok \in BOOLEAN : GenerateResponse(ok)

SpecGenerate == Init /\ [][NextGenerate]_vars

\* the argument builders over the bodies of the model
InitArgs ==
    /\ InitSlots
    /\ serverLogs = <<>>
    /\ \/ \E lm \in LoadModes, dm \in ModelNames, cl \in Names, cg \in Names,
             t5 \in Names, l \in Names, v \in Names, cv \in Names :
               body = ModelBody(lm, dm, cl, cg, t5, l, v, cv)
       \/ \E st \in Numbers, cfg \in Numbers, sd \in SeedInputs :
               body = NumericBody(st, cfg, sd)
       \/ \E w \in Dims, h \in Dims : body = DimBody(w, h)
       \/ \E p \in Prompts, fa \in BoolInputs, vt \in BoolInputs,
             cc \in BoolInputs, oc \in BoolInputs, x \in BoolInputs :
               body = FlagBody(p, fa, vt, cc, oc, x)
       \/ \E lm \in LoadModes, p \in Prompts, np \in {Undef, Str("blurry")},
             ed \in {Undef, Bool(TRUE)}, k \in BOOLEAN, pm \in Names,
             cn \in Names, lp \in {Undef, Str("tae")} :
               body = FeatureBody(lm, p, np, ed, k, pm, cn, lp)
       \/ \E pm \in Names, cn \in Names, files \in SUBSET UploadFields,
             gallery \in BOOLEAN :
               body = UploadBody(pm, cn, files, gallery)

NextArgs ==
    \/ ArgsStart
    \/ ArgsGenerateCli
    \/ ArgsInpaint
    \/ ArgsGenerateVideo
    \/ PayloadGenerate

SpecArgs == InitArgs /\ [][NextArgs]_vars

\* the backend-management endpoints
NextBackend ==
    \/ BackendReload
    \/ \E b \in ConfigBodies, ok \in BOOLEAN : ApiBackendConfig(b, ok)
    \/ \E v \in Versions \cup {""}, a \in Archives, ok \in BOOLEAN :
          ApiBackendDownload(v, a, ok)
    \/ \E ok \in BOOLEAN : ApiBackendUseCustom(ok)
    \/ \E v \in VersionInputs, ok \in BOOLEAN : ApiBackendSetActive(v, ok)
SpecBackend == Init /\ [][NextBackend]_vars

\* reading back the parameters of written images
NextParams ==
    \/ \E p \in PromptTexts, np \in NegativeTexts, st \in StepCounts,
          cfg \in CfgTenths, sd \in SeedValues, size \in Sizes :
            SdCliWritesImage(p, np, st, cfg, sd, size)
    \/ ApiImageParams
SpecParams == Init /\ [][NextParams]_vars

\* the start of the application
NextMain ==
    \/ \E a \in PortArgs : MainStartServer(a)
    \/ \E k \in 0..MaxPortShift, m \in BOOLEAN : BackendListen(k, m)
    \/ MainStdoutData
    \/ MainFallback
    \/ MainCreateWindow
    \/ IpcGetInitState
SpecMain == Init /\ [][NextMain]_vars

\* the log panel over a log buffer of any length
NextLogs ==
    \/ PanelFetchLogs
    \/ PanelClearLogs
SpecLogs == InitLogs /\ [][NextLogs]_vars

\* the Text2Image view and the answers to its requests
NextView ==
    \/ \E e \in {"/api/generate-cli", "/api/generate"} : ViewHandleGenerate(e)
    \/ \E i \in 1..MaxInFlight, r \in {"image", "cancelled", "error"} :
          ViewGenerateAnswered(i, r)
    \/ ViewHandleCancel
    \/ \E ok \in BOOLEAN : ViewCancelAnswered(ok)
SpecView == Init /\ [][NextView]_vars

\* the children of the server process and its exit on SIGINT / SIGTERM;
\* nothing is handled once the process has exited
Serving == ~shutdown.exited
NextShutdown ==
    \/ \E b \in PortBodies : Serving /\ ApiStart(b, "ok")
    \/ Serving /\ ApiStop
    \/ \E p \in SrvIds, c \in ExitCodes : Serving /\ SdExit(p, c)
    \/ Serving /\ ApiGenerateVideo(TRUE, FALSE, "ok")
    \/ \E r \in ReqIds, c \in ExitCodes : Serving /\ ChildExit(r, c, TRUE)
    \/ Serving /\ StartCloudflare
    \/ Serving /\ Cleanup
SpecShutdown == Init /\ [][NextShutdown]_vars

\* the cli slot, model conversion and the log endpoints
Next ==
    \/ Tick
    \/ \E m \in BOOLEAN, u \in GenUploads, o \in SpawnOutcomes : ApiGenerateCli(m, u, o)
    \/ \E m \in BOOLEAN, u \in InpaintUploads, o \in SpawnOutcomes :
          ApiInpaint(m, u[1], u[2], o)
    \/ \E m \in BOOLEAN, i \in BOOLEAN, o \in SpawnOutcomes : ApiGenerateVideo(m, i, o)
    \/ \E v \in BOOLEAN, o \in SpawnOutcomes : ApiConvert(v, o)
    \/ \E r \in ReqIds : CliData(r)
    \/ \E r \in ReqIds, c \in ExitCodes, w \in BOOLEAN : ChildExit(r, c, w)
    \/ \E r \in ReqIds : CliClose(r)
    \/ \E r \in ReqIds : CliError(r)
    \/ ApiCancelCli
    \/ \E r \in ReqIds : ConvertClose(r)
    \/ \E r \in ReqIds : ConvertError(r)
    \/ ApiLogsClear

Spec == Init /\ [][Next]_vars

\* ---- properties ----

\* C1: a CLI request that arrives while a CLI child process is still running
\* is rejected without spawning a process of its own.
C1_SecondCliRejected ==
    \A r \in ReqIds :
        (req[r].kind \in CliKinds /\ req[r].busyAtArrival)
            => (req[r].st = "none" /\ req[r].code = "none" /\ req[r].resp # <<>>)

\* C2: at most one sd-server child process that has not been told to stop is
\* alive, whatever the interleaving of start, stop and 'close' events.
C2_AtMostOneSdServer ==
    Cardinality({p \in SrvIds : srv[p].st = "running" /\ ~srv[p].signalled}) <= 1

\* C3: once a request has been answered, none of the temporary files and
\* directories created for it exists any more.
C3_TempsReleased ==
    \A r \in ReqIds : req[r].resp # <<>> => req[r].temps \cap tempFiles = {}

\* C4: in every generation mode a request with an empty model selection is
\* rejected with a client error and never gets a child process.
C4_EmptyModelRejected ==
    \A r \in ReqIds :
        (req[r].kind \in CliKinds /\ ~req[r].hasModel)
            => /\ req[r].st = "none"
               /\ req[r].resp \in {<<"MODEL_REQUIRED">>, <<"Init image required">>}

\* C5: a CLI job that was running when POST /api/cancel-cli was issued is
\* answered with "Cancelled", never with "Complete" or a failure.
C5_CancelAnswersCancelled ==
    \A r \in ReqIds :
        (req[r].cancelWhileRunning /\ req[r].resp # <<>>)
            => req[r].resp = <<"Cancelled">>

\* C6: a CLI-slot request is answered with success if and only if its child
\* exited with code 0 and the expected output file exists; in particular a
\* job ended by a signal is never reported as complete, even when a (partial)
\* output file exists.
C6_SuccessIffExitZeroAndArtifact ==
    \A r \in ReqIds :
        (req[r].kind \in CliKinds \cup {"convert"} /\ req[r].resp # <<>>)
            => /\ (req[r].resp[1] \in {"Complete", "convert success"})
                      <=> (req[r].code = "0" /\ req[r].artifactAtAnswer)
               /\ req[r].code = "null"
                      => req[r].resp[1] \notin {"Complete", "convert success"}

\* C6 witness: one job answered "Complete" after exit code 0 with its output
\* file, and one cancelled job answered "Cancelled" although its (partial)
\* output file exists.
C6_Witness ==
    /\ \E r \in ReqIds : /\ req[r].kind \in CliKinds
                         /\ req[r].code = "0" /\ req[r].artifactAtAnswer
                         /\ req[r].resp = <<"Complete">>
    /\ \E r \in ReqIds : /\ req[r].kind \in CliKinds
                         /\ req[r].signalled /\ req[r].code = "null"
                         /\ req[r].artifactAtAnswer
                         /\ req[r].resp = <<"Cancelled">>

\* C7: a start request whose executable cannot be spawned is answered with an
\* error and the server keeps running with the slot free.
C7_SpawnFailureReported ==
    \A p \in SrvIds :
        srv[p].code = "ENOENT"
            => (srv[p].resp = <<"Failed to start">> /\ ~crashed)

\* C8: every request gets at most one response and no child 'error' event or
\* second response is left unhandled.
C8_OneResponseNothingUnhandled ==
    /\ ~crashed
    /\ \A r \in ReqIds : Len(req[r].resp) <= 1

\* C9: the length of the shared log buffer never exceeds a fixed capacity.
C9_LogBounded == Len(serverLogs) <= LogCapacity

\* C10: the chunks that the children emitted since the last logs/clear are
\* exactly the chunks held by the log buffer, in emission order.
C10_ChunksLogged ==
    SelectSeq(serverLogs, LAMBDA e : e[1] # "EXIT") = emitted

\* C11: every CLI-slot request that ended as a failure (non-zero exit code,
\* or exit code 0 without the output file) is answered with an error whose
\* body carries the log output that its child has written.
C11_FailureCarriesOutput ==
    \A r \in ReqIds :
        (/\ req[r].kind \in CliKinds
         /\ req[r].resp # <<>>
         /\ \/ req[r].code = "1"
            \/ (req[r].code = "0" /\ ~req[r].artifactAtAnswer))
            => (/\ req[r].resp[1] \in {"failed", "no output file"}
                /\ req[r].respOutput = <<req[r].output>>)

\* C20: a POST /api/start that arrives while sdProcess holds a process is
\* answered 'Server already running', spawns nothing and leaves sdProcess,
\* serverLogs and lastSdArgs as they were; a POST /api/stop that arrives
\* while sdProcess is null is answered 'Not running' and changes none of them.
C20_RejectedControlChangesNothing ==
    [][/\ (lastResponse'.start # lastResponse.start /\ sdProcess # 0)
            => /\ lastResponse'.start.message = "Server already running"
               /\ UNCHANGED <<sdProcess, serverLogs, lastSdArgs, srv>>
       /\ (lastResponse'.stop # lastResponse.stop /\ sdProcess = 0)
            => /\ lastResponse'.stop.message = "Not running"
               /\ UNCHANGED <<sdProcess, serverLogs, lastSdArgs, srv>>]_vars

\* C20 witness: a start was rejected while a server with log lines and
\* recorded args holds the slot, after a stop had been rejected
C20_Witness ==
    /\ lastResponse.start.message = "Server already running"
    /\ lastResponse.stop.message = "Not running"
    /\ sdProcess # 0
    /\ serverLogs # <<>>
    /\ lastSdArgs # <<>>

\* C12: a server-mode batch of N with a fixed seed S # -1 sends the seeds
\* S, S+1, ..., S+N-1 in that order; with seed -1 every payload carries -1;
\* a batch answered 'Complete' lists exactly N file names.
C12_BatchSeeds ==
    (gen.pc # "idle" /\ gen.seed.t = "number")
        => /\ \A k \in 1..Len(gen.dispatched) :
                gen.dispatched[k] = IF gen.seed.n = -1 THEN Num(-1)
                                    ELSE Num(gen.seed.n + k - 1)
           /\ gen.resp = <<"Complete">>
                => /\ Len(gen.dispatched) = gen.batch_size
                   /\ Len(gen.generatedFiles) = gen.batch_size

\* the files and directories that belong to request r: its temp paths, its
\* output path and, with live preview, the preview file of the child
Resources(r) ==
    req[r].temps \cup {req[r].outPath}
    \cup (IF req[r].preview THEN {<<"preview", 0>>} ELSE {})

\* C19: two generation requests that are handled at the same time share no
\* temp directory or file, preview file or output path.
C19_NoSharedResource ==
    \A r, q \in ReqIds :
        (/\ r # q
         /\ req[r].kind \in CliKinds /\ req[q].kind \in CliKinds
         /\ req[r].st # "none" /\ req[q].st # "none"
         /\ req[r].resp = <<>> /\ req[q].resp = <<>>)
            => Resources(r) \cap Resources(q) = {}

\* ---- properties of the argument lists ----

\* args.includes(token)
Has(args, token) == \E i \in 1..Len(args) : args[i] = token

\* the token that follows flag in args
ValueOf(args, flag) ==
    args[(CHOOSE i \in 1..(Len(args) - 1) : args[i] = flag) + 1]

\* the endpoints that spawn a child with an argument list
SpawnEndpoints == {"start", "generate-cli", "inpaint", "generate-video"}

\* the multiples of m that are nearest to n
NearestMultiples(n, m) ==
    LET below == (n \div m) * m
        dist(k) == IF k < n THEN n - k ELSE k - n
    IN {k \in {below, below + m} :
            \A k2 \in {below, below + m} : dist(k) <= dist(k2)}

\* v is a requested dimension: a positive number or numeric string
IsDimension(v) == ToNumber(v).t = "number" /\ ToNumber(v).n >= 1 /\ Truthy(v)

\* C13: with loadMode "split" the argument list never contains -m; with
\* loadMode "standard" it contains none of --diffusion-model, --clip_l,
\* --clip_g, --t5xxl, --llm and, when a model is selected, it contains
\* -m <models>/diffusion/<model>; for start, generate-cli, inpaint and
\* generate-video alike.
C13_LoadStrategyExclusive ==
    cmd.endpoint \in SpawnEndpoints
        => /\ body.loadMode = Str("split") => ~Has(cmd.args, "-m")
           /\ body.loadMode = Str("standard")
                => /\ \A f \in {"--diffusion-model", "--clip_l", "--clip_g",
                                "--t5xxl", "--llm"} : ~Has(cmd.args, f)
                   /\ Truthy(body.diffusionModel)
                        => /\ Has(cmd.args, "-m")
                           /\ ValueOf(cmd.args, "-m")
                                = ModelPath("diffusion", body.diffusionModel)

C15_NumericDefaults ==
    LET expect(v, d) == IF v = Undef THEN ToString(d) ELSE String(v)
    IN /\ cmd.endpoint \in {"generate-cli", "inpaint", "generate-video"}
            => /\ ValueOf(cmd.args, "--steps") = expect(body.steps, 20)
               /\ ValueOf(cmd.args, "--cfg-scale") = expect(body.cfg_scale, 7)
               /\ ValueOf(cmd.args, "-s") = expect(body.seed, -1)
       /\ cmd.endpoint = "generate"
            => /\ String(cmd.payload.steps) = expect(body.steps, 20)
               /\ String(cmd.payload.cfg_scale) = expect(body.cfg_scale, 7)
               /\ String(cmd.payload.seed) = expect(body.seed, -1)

\* the groups of flags of an argument list
LoadFlags == {"-m", "--diffusion-model", "--clip_l", "--clip_g", "--clip_vision",
              "--t5xxl", "--llm", "--vae", "--high-noise-diffusion-model"}
AuxFlags == {"--lora-model-dir", "--embd-dir"}
GenerationFlags == {"-p", "-n", "--steps", "--cfg-scale", "-W", "-H", "-s"}
FeatureFlags == {"--photo-maker", "--pm-id-images-dir", "--pm-style-strength",
                 "--pm-id-embed-path", "--control-net", "--control-image",
                 "--control-strength", "--canny", "-r", "--video-frames",
                 "--flow-shift"}
GenerationEndpoints == {"generate-cli", "inpaint", "generate-video"}

\* the position of a token in the order load strategy, auxiliary model
\* flags, generation parameters, feature blocks, output path, verbosity;
\* 0 for the other tokens
RankStated(token) ==
    CASE token \in LoadFlags -> 1
      [] token \in AuxFlags -> 2
      [] token \in GenerationFlags -> 3
      [] token \in FeatureFlags -> 4
      [] token = "-o" -> 5
      [] token = "-v" -> 6
      [] OTHER -> 0

\* the position of a token in the order load strategy, generation
\* parameters, output path, auxiliary model flags and feature blocks,
\* verbosity; 0 for the other tokens
RankBuilt(token) ==
    CASE token \in LoadFlags -> 1
      [] token \in GenerationFlags -> 2
      [] token = "-o" -> 3
      [] token \in AuxFlags \cup FeatureFlags -> 4
      [] token = "-v" -> 5
      [] OTHER -> 0

\* the ranked tokens of args appear in the order of their ranks
Ordered(args, rank(_)) ==
    \A i, j \in 1..Len(args) :
        (i < j /\ rank(args[i]) # 0 /\ rank(args[j]) # 0)
            => rank(args[i]) <= rank(args[j])

\* C16 as stated: the token list of every generation request is ordered
\* load-strategy flags, auxiliary model flags (--lora-model-dir, --embd-dir),
\* generation parameters, feature blocks, output path -o, and -v last.
C16_TokenOrderStated ==
    cmd.endpoint \in GenerationEndpoints
        => /\ Ordered(cmd.args, RankStated)
           /\ cmd.args[Len(cmd.args)] = "-v"

\* C16 amended: the token list of every generation request is ordered
\* load-strategy flags, generation parameters, output path -o, then the
\* auxiliary model flags and the feature blocks, and -v last.
C16_TokenOrderBuilt ==
    cmd.endpoint \in GenerationEndpoints
        => /\ Ordered(cmd.args, RankBuilt)
           /\ cmd.args[Len(cmd.args)] = "-v"

\* C16 witness: a generate-cli list with both directories and the Kontext,
\* PhotoMaker and ControlNet blocks
C16_Witness ==
    /\ cmd.endpoint = "generate-cli"
    /\ \A f \in {"--diffusion-model", "--lora-model-dir", "--embd-dir", "-r",
                 "--photo-maker", "--control-net", "-o", "-v"} : Has(cmd.args, f)

\* C17: generate-cli and generate-video never emit --diffusion-fa for a
\* prompt that contains '<lora:'.
C17_FlashAttentionSuppressed ==
    (cmd.endpoint \in {"generate-cli", "generate-video"}
     /\ body.prompt.s \in LoraPrompts)
        => ~Has(cmd.args, "--diffusion-fa")

\* the boolean flags that an endpoint reads, with the token of each
BooleanFlags(endpoint) ==
    CASE endpoint = "start" ->
            {<<body.diffusionFa, "--diffusion-fa">>, <<body.vaeTiling, "--vae-tiling">>,
             <<body.clipOnCpu, "--clip-on-cpu">>, <<body.vaeOnCpu, "--vae-on-cpu">>,
             <<body.offloadToCpu, "--offload-to-cpu">>}
      [] endpoint = "generate-cli" ->
            {<<body.diffusionFa, "--diffusion-fa">>, <<body.vaeTiling, "--vae-tiling">>,
             <<body.clipOnCpu, "--clip-on-cpu">>,
             <<body.offloadToCpu, "--offload-to-cpu">>,
             <<body.diffusionConvDirect, "--diffusion-conv-direct">>,
             <<body.vaeConvDirect, "--vae-conv-direct">>,
             <<body.forceSDXLVaeConvScale, "--force-sdxl-vae-conv-scale">>,
             <<body.applyCanny, "--canny">>}
      [] endpoint = "inpaint" ->
            {<<body.vaeTiling, "--vae-tiling">>, <<body.clipOnCpu, "--clip-on-cpu">>,
             <<body.offloadToCpu, "--offload-to-cpu">>}
      [] endpoint = "generate-video" ->
            {<<body.diffusionFa, "--diffusion-fa">>, <<body.vaeTiling, "--vae-tiling">>,
             <<body.clipOnCpu, "--clip-on-cpu">>,
             <<body.offloadToCpu, "--offload-to-cpu">>}
      [] OTHER -> {}

\* C18: on every endpoint a boolean flag is emitted if and only if its
\* field is the boolean true or the string "true" (--diffusion-fa: and the
\* prompt has no LoRA tag); false, "false" and a missing field never emit it.
C18_BooleanFlags ==
    \A f \in BooleanFlags(cmd.endpoint) :
        /\ Has(cmd.args, f[2]) => (f[1] = Bool(TRUE) \/ f[1] = Str("true"))
        /\ ((f[1] = Bool(TRUE) \/ f[1] = Str("true"))
            /\ ~(f[2] = "--diffusion-fa" /\ body.prompt.s \in LoraPrompts)
            /\ (f[2] = "--canny" => Truthy(body.controlNet)))
                => Has(cmd.args, f[2])

\* C25: a CLI request is answered 'Cancelled' only if POST /api/cancel-cli
\* sent the termination signal to its child while it was running; a child
\* that ends with a null exit code for another reason is not reported so.
C25_CancelledOnlyByCancel ==
    \A r \in ReqIds :
        (req[r].kind \in CliKinds /\ req[r].resp = <<"Cancelled">>)
            => req[r].signalled

\* the persisted config is the in-memory one, and the active backend path
\* resolved from either is the same
ConfigPersisted ==
    /\ configFile = JSONStringify(backendConfig)
    /\ GetActiveBackendPath(LoadBackendConfig(configFile)) =
           GetActiveBackendPath(backendConfig)

C27_ActiveVersionInstalled ==
    backendConfig.activeVersion = "custom"
        \/ HasSdServer(backendConfig.activeVersion)

\* the answer reproduces the values the image was written from
ParamsReproduced ==
    /\ params.prompt = image.meta.prompt
    /\ params.steps = Num(image.meta.steps)
    /\ params.cfgScale = Num(image.meta.cfgScale)
    /\ params.seed = Num(image.meta.seed)
    /\ params.width = Num(image.meta.width)
    /\ params.height = Num(image.meta.height)

\* C22: writing prompt, negative prompt, steps, cfg scale, seed
\* and size in the 'parameters' format and reading them back through
\* readPngParams and POST /api/image/params reproduces the prompt, steps,
\* cfg scale, seed, width and height.
C22_RoundTrip ==
    params.answered => ParamsReproduced

\* C23: when the announcement of the port arrives before the 3-second
\* fallback, startServer() resolves with the announced port, and
\* 'get-init-state' / 'get-server-port' return the port the server is bound
\* to; the window is created only after startServer has settled.
C23_ResolvesAnnouncedPort ==
    /\ (main.pc = "settled" /\ main.announced) => main.resolved = backend.port
    /\ (main.initState # 0 /\ main.announced) => main.initState = backend.port
    /\ main.window => main.pc = "settled"

\* C24: after fetchLogs() completes, the most recently appended entry of
\* the server's log buffer is among the entries the panel displays, for
\* every length of the buffer.
C24_LatestLogDisplayed ==
    (logPanel.fetched /\ serverLogs # <<>>) =>
        \E i \in DOMAIN logPanel.logs :
            logPanel.logs[i] = serverLogs[Len(serverLogs)]

\* C26: the Text2Image view never has two generation requests in flight,
\* and isGenerating is true exactly while a request is outstanding.
C26_OneRequestInFlight ==
    /\ Len(view.requests) <= 1
    /\ view.isGenerating <=> view.requests # <<>>

\* C28: a payload of POST /api/generate is sent to the port on which the
\* running sd-server was started by POST /api/start (body.port, default
\* 1234), for every port value.
C28_GenerateUsesStartPort ==
    (gen.dispatched # <<>> /\ gen.serverPort # "") => gen.port = gen.serverPort

\* C29: when the server process handles SIGINT or SIGTERM, every child it
\* started that is still alive (sd-server, CLI process, cloudflare tunnel)
\* has been sent a termination signal by the time the process exits.
C29_ChildrenSignalledAtExit ==
    shutdown.exited =>
        /\ \A p \in SrvIds : srv[p].st = "running" => srv[p].signalled
        /\ \A r \in ReqIds : req[r].st = "running" => req[r].signalled
        /\ shutdown.cloudflareTunnel # "running"

\* C30: whenever generate-cli emits --pm-id-images-dir, the directory
\* holds only PhotoMaker ID images of the request (no uploaded ControlNet
\* or Kontext image), and the request supplied an ID image.
C30_PmDirHoldsOnlyIdImages ==
    (cmd.endpoint = "generate-cli" /\ Has(cmd.args, "--pm-id-images-dir")
        /\ body.files \cup body.pmDirFiles # {}) =>
        /\ body.pmDirFiles \subseteq {"pmImages", "pmGalleryImages"}
        /\ body.pmDirFiles # {}

====
